---- MODULE Spec2Model ----
(***************************************************************************)
(* Model of the meetingSTT request pipeline.                               *)
(*                                                                         *)
(* Two deployments of the same pipeline are modelled:                      *)
(*   "mono"  : src/api.py summarize_audio calling                          *)
(*             src/main.py diarize_and_transcribe;                         *)
(*   "split" : src/ui_client/api.py summarize_meeting_endpoint calling,   *)
(*             through src/ui_client/diarization_client.py, the endpoint  *)
(*             src/diarization_service/api.py process_audio_endpoint,      *)
(*             which runs src/diarization_service/transcription.py         *)
(*             diarize_and_transcribe_audio_segments.                      *)
(* The command line run (src/main.py main) is a third caller of            *)
(* diarize_and_transcribe; reqs holds the locals of /summarize handlers    *)
(* that run concurrently.                                                  *)
(*                                                                         *)
(* Text is a sequence of tokens: a token is a word (a maximal chunk of     *)
(* non-whitespace characters, a speaker label included), the blank " " or  *)
(* the newline "\n".  Time is an integer number of ticks, TicksPerMs ticks *)
(* to the millisecond, so that boundaries need not be whole milliseconds.  *)
(***************************************************************************)
EXTENDS Integers, Sequences, FiniteSets, TLC

\* ---------------------------------------------------------------- bounds
TicksPerMs == 2
MaxTick == 4
MaxTurns == 2
MaxAudioMs == 2
MaxUnits == 3
MaxRequests == 2

\* ------------------------------------------------------------- constants
None == "<None>"
ERROR == "ERROR"
UNKNOWN == "UNKNOWN"
TranscriptionErrorText == <<"[Transcription", " ", "Error]">>
SpeakerLabels == <<"SPEAKER_0", "SPEAKER_1">>
Speakers == {SpeakerLabels[i] : i \in 1..Len(SpeakerLabels)}
Whitespace == {" ", "\n"}

\* ------------------------------------------------------------------ text
RECURSIVE lstrip(_)
lstrip(s) ==
  IF s = <<>> THEN <<>>
  ELSE IF Head(s) \in Whitespace THEN lstrip(Tail(s)) ELSE s

RECURSIVE rstrip(_)
rstrip(s) ==
  IF s = <<>> THEN <<>>
  ELSE IF s[Len(s)] \in Whitespace THEN rstrip(SubSeq(s, 1, Len(s) - 1)) ELSE s

strip(s) == rstrip(lstrip(s))

\* ------------------------------------------------------------------ time
Min(a, b) == IF a <= b THEN a ELSE b
Max(a, b) == IF a >= b THEN a ELSE b

\* int(start * 1000): whole milliseconds, truncated
IntMs(t) == t \div TicksPerMs

\* round(start, 3): the nearest whole millisecond, in ticks (a half rounds
\* up, as round() does on 0.0005, 0.0015 and 0.0025)
round3(t) == ((2 * t + TicksPerMs) \div (2 * TicksPerMs)) * TicksPerMs

\* ----------------------------------------------------------- diarization
\* A turn of the pyannote Annotation: a non-empty segment and its label.
Turns == {[start |-> a, end |-> b, speaker |-> sp] :
            a \in 0..MaxTick, b \in 0..MaxTick, sp \in Speakers}

ProperTurns == {t \in Turns : t.start < t.end}

\* What PyannotePipelineWrapper.diarize can return: None, or an Annotation
\* (a set of turns, iterated in segment order).
NoDiarization == [is_none |-> TRUE, turns |-> {}]

Annotation(turns) == [is_none |-> FALSE, turns |-> turns]

\* the sets of at most n turns
RECURSIVE TurnSets(_)
TurnSets(n) ==
  IF n = 0 THEN {{}}
  ELSE LET smaller == TurnSets(n - 1)
       IN smaller \cup {d \cup {t} : d \in smaller, t \in ProperTurns}

DiarizationResults ==
  {NoDiarization} \cup {Annotation(d) : d \in TurnSets(MaxTurns)}

\* tick cell [t, t+1) lies inside some turn
Covered(diarization, t) ==
  \E u \in diarization : u.start <= t /\ t < u.end

\* diarization.get_timeline().support(): the maximal contiguous covered
\* intervals (overlapping and touching turns are fused)
SupportSet(diarization) ==
  {<<a, b>> \in {u.start : u \in diarization} \X {u.end : u \in diarization} :
      /\ a < b
      /\ \A t \in a..(b - 1) : Covered(diarization, t)
      /\ ~Covered(diarization, a - 1)
      /\ ~Covered(diarization, b)}

RECURSIVE SortedByStart(_)
SortedByStart(S) ==
  IF S = {} THEN <<>>
  ELSE LET first == CHOOSE x \in S : \A y \in S : x[1] <= y[1]
       IN <<first>> \o SortedByStart(S \ {first})

Support(diarization) == SortedByStart(SupportSet(diarization))

\* ---------------------------------------------------------- segmentation
SegmentStep_NoClip(acc, segment, audio_ms, failing) ==
  LET start == segment[1]
      end == segment[2]
      start_ms == IntMs(start)
      end_ms == IntMs(end)
      chunk_len == Max(0, Min(end_ms, audio_ms) - Min(start_ms, audio_ms))
  IN IF start >= end THEN acc
     ELSE IF chunk_len = 0 THEN acc
     ELSE IF segment \in failing THEN acc
     ELSE [segments |-> Append(acc.segments, <<start_ms, end_ms>>),
           boundaries |-> Append(acc.boundaries, <<start, end>>)]

SegmentStep_AppendOnFailure(acc, segment, audio_ms, failing) ==
  LET audio_duration_sec == audio_ms * TicksPerMs
      start == Max(0, segment[1])
      end == Min(audio_duration_sec, segment[2])
      start_ms == IntMs(start)
      end_ms == IntMs(end)
      chunk_len == Max(0, Min(end_ms, audio_ms) - Min(start_ms, audio_ms))
  IN IF start >= end THEN acc
     ELSE IF chunk_len = 0 THEN acc
     ELSE [segments |-> Append(acc.segments, <<start_ms, end_ms>>),
           boundaries |-> Append(acc.boundaries, <<start, end>>)]

\* One iteration of the loop of segment_audio_from_diarization: acc is
\* [segments, boundaries]; failing is the set of intervals whose
\* audiosegment_to_tensor call raises.
SegmentStep(acc, segment, audio_ms, failing) ==
  LET audio_duration_sec == audio_ms * TicksPerMs
      start == Max(0, segment[1])
      end == Min(audio_duration_sec, segment[2])
      start_ms == IntMs(start)
      end_ms == IntMs(end)
      chunk_len == Max(0, Min(end_ms, audio_ms) - Min(start_ms, audio_ms))
  IN IF start >= end THEN acc
     ELSE IF chunk_len = 0 THEN acc
     ELSE IF segment \in failing THEN acc
     ELSE [segments |-> Append(acc.segments, <<start_ms, end_ms>>),
           boundaries |-> Append(acc.boundaries, <<start, end>>)]

RECURSIVE SegmentLoop(_, _, _, _)
SegmentLoop(acc, support, audio_ms, failing) ==
  IF support = <<>> THEN acc
  ELSE SegmentLoop(SegmentStep(acc, Head(support), audio_ms, failing),
                   Tail(support), audio_ms, failing)

segment_audio_from_diarization(audio_ms, diarization, failing) ==
  SegmentLoop([segments |-> <<>>, boundaries |-> <<>>],
              Support(diarization), audio_ms, failing)

\* -------------------------------------------------------- speaker lookup
\* diarization.crop(Segment(start, end)).labels(): labels of the turns whose
\* intersection with the segment is not empty
CropLabels(diarization, start, end) ==
  {u.speaker : u \in {v \in diarization :
                        Max(v.start, start) < Min(v.end, end)}}

\* diarization.overlapping(Segment(start, end)).labels()
OverlappingLabels(diarization, start, end) ==
  {u.speaker : u \in {v \in diarization : v.start < end /\ start < v.end}}

\* labels() is sorted: element 0 is the least label
FirstLabel(labels) ==
  SpeakerLabels[CHOOSE i \in 1..Len(SpeakerLabels) :
                  /\ SpeakerLabels[i] \in labels
                  /\ \A j \in 1..(i - 1) : SpeakerLabels[j] \notin labels]

SpeakerLookup_AnyLabel(diarization, start, end, lookup_raises) ==
  IF lookup_raises THEN UNKNOWN
  ELSE LET speakers == {u.speaker : u \in diarization}
       IN IF speakers # {} THEN FirstLabel(speakers) ELSE UNKNOWN

SpeakerLookup_RaiseAsError(diarization, start, end, lookup_raises) ==
  IF lookup_raises THEN ERROR
  ELSE LET speakers == CropLabels(diarization, start, end)
           overlapping_speakers == OverlappingLabels(diarization, start, end)
       IN IF speakers # {} THEN FirstLabel(speakers)
          ELSE IF overlapping_speakers # {} THEN FirstLabel(overlapping_speakers)
          ELSE UNKNOWN

\* The inner try of the transcription loop; lookup_raises: the lookup raised.
SpeakerLookup(diarization, start, end, lookup_raises) ==
  IF lookup_raises THEN UNKNOWN
  ELSE LET speakers == CropLabels(diarization, start, end)
           overlapping_speakers == OverlappingLabels(diarization, start, end)
       IN IF speakers # {} THEN FirstLabel(speakers)
          ELSE IF overlapping_speakers # {} THEN FirstLabel(overlapping_speakers)
          ELSE UNKNOWN

\* --------------------------------------------------- transcription loop
\* Texts the recognizer can return for one segment.
RawTexts == {<<>>, <<" ">>, <<"hi">>, <<" ", "there", " ">>}

\* Outcome of one iteration: raised (the recognizer raised), else its result
\* text and lookup_raises (the speaker lookup raised).
Outcomes ==
  {[raised |-> TRUE, result |-> <<>>, lookup_raises |-> FALSE]}
    \cup {[raised |-> FALSE, result |-> r, lookup_raises |-> l] :
            r \in RawTexts, l \in BOOLEAN}

MainUnit_ErrorAsUnknown(diarization, boundary, outcome) ==
  [speaker |-> IF outcome.raised THEN UNKNOWN
               ELSE SpeakerLookup(diarization, boundary[1], boundary[2],
                                  outcome.lookup_raises),
   transcription |-> IF outcome.raised THEN TranscriptionErrorText
                     ELSE outcome.result,
   start |-> boundary[1], end |-> boundary[2]]

\* The unit appended by one iteration of the loop of diarize_and_transcribe.
MainUnit(diarization, boundary, outcome) ==
  IF outcome.raised
  THEN [speaker |-> ERROR, transcription |-> TranscriptionErrorText,
        start |-> boundary[1], end |-> boundary[2]]
  ELSE [speaker |-> SpeakerLookup(diarization, boundary[1], boundary[2],
                                  outcome.lookup_raises),
        transcription |-> outcome.result,
        start |-> boundary[1], end |-> boundary[2]]

ServiceUnit_NoStrip(diarization, boundary, outcome) ==
  IF outcome.raised
  THEN [speaker |-> ERROR, text |-> TranscriptionErrorText,
        start_time |-> round3(boundary[1]), end_time |-> round3(boundary[2])]
  ELSE [speaker |-> SpeakerLookup(diarization, boundary[1], boundary[2],
                                  outcome.lookup_raises),
        text |-> outcome.result,
        start_time |-> round3(boundary[1]), end_time |-> round3(boundary[2])]

\* The unit appended by one iteration of the loop of
\* diarize_and_transcribe_audio_segments.
ServiceUnit(diarization, boundary, outcome) ==
  IF outcome.raised
  THEN [speaker |-> ERROR, text |-> TranscriptionErrorText,
        start_time |-> round3(boundary[1]), end_time |-> round3(boundary[2])]
  ELSE [speaker |-> SpeakerLookup(diarization, boundary[1], boundary[2],
                                  outcome.lookup_raises),
        text |-> strip(outcome.result),
        start_time |-> round3(boundary[1]), end_time |-> round3(boundary[2])]

\* ------------------------------------------------------------ merge loops
FormatLine_NoTrim(current_speaker, speaker_utterance) ==
  <<current_speaker, ":">> \o speaker_utterance \o <<"\n">>

\* f"{current_speaker}: {speaker_utterance.strip()}\n"
FormatLine(current_speaker, speaker_utterance) ==
  <<current_speaker, ":", " ">> \o strip(speaker_utterance) \o <<"\n">>

MergeStart ==
  [final_transcription |-> <<>>, current_speaker |-> None,
   speaker_utterance |-> <<>>]

MainMergeStep_KeepError(st, result) ==
  LET speaker == result.speaker
      transcription == strip(result.transcription)
  IN IF transcription = <<>> THEN st
     ELSE IF st.current_speaker = None
     THEN [st EXCEPT !.current_speaker = speaker,
                     !.speaker_utterance = @ \o transcription \o <<" ">>]
     ELSE IF speaker = st.current_speaker
     THEN [st EXCEPT !.speaker_utterance = @ \o transcription \o <<" ">>]
     ELSE [final_transcription |->
             st.final_transcription
               \o FormatLine(st.current_speaker, st.speaker_utterance),
           current_speaker |-> speaker,
           speaker_utterance |-> transcription \o <<" ">>]

MainMergeStep_NoSpace(st, result) ==
  LET speaker == result.speaker
      transcription == strip(result.transcription)
  IN IF transcription = <<>> \/ speaker = ERROR THEN st
     ELSE IF st.current_speaker = None
     THEN [st EXCEPT !.current_speaker = speaker,
                     !.speaker_utterance = @ \o transcription]
     ELSE IF speaker = st.current_speaker
     THEN [st EXCEPT !.speaker_utterance = @ \o transcription]
     ELSE [final_transcription |->
             st.final_transcription
               \o FormatLine(st.current_speaker, st.speaker_utterance),
           current_speaker |-> speaker,
           speaker_utterance |-> transcription]

\* Body of the merge loop of diarize_and_transcribe.
MainMergeStep(st, result) ==
  LET speaker == result.speaker
      transcription == strip(result.transcription)
  IN IF transcription = <<>> \/ speaker = ERROR THEN st
     ELSE IF st.current_speaker = None
     THEN [st EXCEPT !.current_speaker = speaker,
                     !.speaker_utterance = @ \o transcription \o <<" ">>]
     ELSE IF speaker = st.current_speaker
     THEN [st EXCEPT !.speaker_utterance = @ \o transcription \o <<" ">>]
     ELSE [final_transcription |->
             st.final_transcription
               \o FormatLine(st.current_speaker, st.speaker_utterance),
           current_speaker |-> speaker,
           speaker_utterance |-> transcription \o <<" ">>]

RECURSIVE MainMergeLoop_Reversed(_, _)
MainMergeLoop_Reversed(st, results) ==
  IF results = <<>> THEN st
  ELSE MainMergeStep(MainMergeLoop_Reversed(st, Tail(results)), Head(results))

RECURSIVE MainMergeLoop(_, _)
MainMergeLoop(st, results) ==
  IF results = <<>> THEN st
  ELSE MainMergeLoop(MainMergeStep(st, Head(results)), Tail(results))

MergeFinish_NoFlush(st) == strip(st.final_transcription)

\* The flush after the loop and the final strip.
MergeFinish(st) ==
  strip(IF /\ st.current_speaker # None
           /\ st.current_speaker # ""
           /\ strip(st.speaker_utterance) # <<>>
        THEN st.final_transcription
               \o FormatLine(st.current_speaker, st.speaker_utterance)
        ELSE st.final_transcription)

\* "Formatting final transcription...": the rendered transcript returned by
\* diarize_and_transcribe.
FormatTranscription(transcribed_results) ==
  MergeFinish(MainMergeLoop(MergeStart, transcribed_results))

UiMergeStep_NoFlush(st, seg) ==
  IF seg.speaker = ERROR \/ seg.text = <<>> THEN st
  ELSE IF st.current_speaker = None
  THEN [st EXCEPT !.current_speaker = seg.speaker,
                  !.speaker_utterance = @ \o seg.text \o <<" ">>]
  ELSE [st EXCEPT !.speaker_utterance = @ \o seg.text \o <<" ">>]

\* Body of the merge loop of summarize_meeting_endpoint.
UiMergeStep(st, seg) ==
  IF seg.speaker = ERROR \/ seg.text = <<>> THEN st
  ELSE IF st.current_speaker = None
  THEN [st EXCEPT !.current_speaker = seg.speaker,
                  !.speaker_utterance = @ \o seg.text \o <<" ">>]
  ELSE IF seg.speaker = st.current_speaker
  THEN [st EXCEPT !.speaker_utterance = @ \o seg.text \o <<" ">>]
  ELSE [final_transcription |->
          st.final_transcription
            \o FormatLine(st.current_speaker, st.speaker_utterance),
        current_speaker |-> seg.speaker,
        speaker_utterance |-> seg.text \o <<" ">>]

RECURSIVE UiMergeLoop(_, _)
UiMergeLoop(st, transcribed_segments) ==
  IF transcribed_segments = <<>> THEN st
  ELSE UiMergeLoop(UiMergeStep(st, Head(transcribed_segments)),
                   Tail(transcribed_segments))

\* full_transcription_text of summarize_meeting_endpoint.
UiFormatTranscription(transcribed_segments) ==
  MergeFinish(UiMergeLoop(MergeStart, transcribed_segments))

\* ------------------------------------------------------------- summarizer
\* Text returned by the LLM for a transcript (free text, opaque here).
SummaryOf(text) == <<"<summary", " ", "of>", " ">> \o text

NoText == [is_none |-> TRUE, value |-> <<>>]

SomeText(text) == [is_none |-> FALSE, value |-> text]

\* llm_wrapper.summarize can return the summary or None
LlmResults(text) == {SomeText(SummaryOf(text)), NoText}

PreviousTranscription == <<"<previous", " ", "transcription>">>
PreviousSummary == <<"<previous", " ", "summary>">>
NoContentSummary == <<"No", " ", "content", " ", "to", " ", "summarize">>

\* ------------------------------------------------------------------ state
VARIABLES
  mode,                   \* "mono" | "split"
  entry,                  \* "http" (the Flask endpoint) | "cli" (main())
  pc,                     \* position of the request
  diarization,            \* result of pyannote_wrapper.diarize
  audio_ms,               \* len(audio) of the loaded waveform, in ms
  failed_conversions,     \* support intervals whose tensor conversion raised
  segments,               \* audio slices, as [start_ms, end_ms)
  boundaries,             \* (start, end) of each slice, in ticks
  asr_outcomes,           \* what the recognizer and the lookup did, per segment
  transcribed_results,    \* units appended by the transcription loop
  transcription,          \* mono: value returned by diarize_and_transcribe
  service_result,         \* split: (transcribed_segments, error_message)
  service_response,       \* split: HTTP answer of /process_audio
  diarization_response,   \* split: what process_audio_file hands to the UI
  full_transcription_text, \* split: transcript rendered by the UI
  llm_calls,              \* texts handed to the summarizer, in call order
  response,               \* HTTP answer of /summarize
  transcription_file,     \* last_transcription.txt
  summary_file,           \* last_summary.txt
  reqs,                   \* concurrent requests: the locals of each handler
  gigaam_model,           \* the recognizer loaded at start-up, or None
  pipeline,               \* pyannote_wrapper.pipeline, or None
  upload_folder,          \* temporary directories and files of the uploads
  lpc,                    \* run.py: position of the launcher
  starts,                 \* run.py: number of times the launcher was started
  ui_process,             \* run.py: the UI client process
  ui_stop,                \* run.py: how handle_exit stopped the UI client
  docker,                 \* run.py: the Docker client, or None
  compose,                \* run.py: the Docker Compose services
  docker_stopped,         \* run.py: handle_exit called stop_docker_services
  image,                  \* run.py: the diarization image exists
  sources,                \* run.py: content of the watched sources
  build_state,            \* run.py: .diarization_build_state.json
  inspected,              \* run.py: outcome of the image check
  perform_build,          \* run.py: the rebuild decision
  last_build,             \* run.py: how the latest build attempt ended
  built_sources,          \* run.py: the sources at the latest build attempt
  retries,                \* run.py: counter of the wait-for-healthy loop
  inspections,            \* run.py: health inspections made by this start
  healthy,                \* run.py: an inspection reported healthy
  warned,                 \* run.py: the timeout warning was printed
  exit_via                \* run.py: how the launcher ended

vars ==
  <<mode, entry, pc, diarization, audio_ms, failed_conversions, segments,
    boundaries, asr_outcomes,
    transcribed_results, transcription, service_result, service_response,
    diarization_response, full_transcription_text, llm_calls, response,
    transcription_file, summary_file, reqs,
    gigaam_model, pipeline, upload_folder,
    lpc, starts, ui_process, ui_stop, docker, compose, docker_stopped,
    image, sources, build_state, inspected, perform_build, last_build,
    built_sources, retries, inspections, healthy, warned, exit_via>>

\* the models loaded at start-up
models == <<gigaam_model, pipeline>>

\* the state of run.py and of what it manages
launcher_vars ==
  <<lpc, starts, ui_process, ui_stop, docker, compose, docker_stopped,
    image, sources, build_state, inspected, perform_build, last_build,
    built_sources, retries, inspections, healthy, warned, exit_via>>

\* both models were loaded at start-up
ModelsReady ==
  /\ gigaam_model = "rnnt"
  /\ pipeline = "pipeline"

\* run.py has not been started; nothing was built
LauncherOff ==
  /\ lpc = "stopped"
  /\ starts = 0
  /\ ui_process = None
  /\ ui_stop = "none"
  /\ docker = None
  /\ compose = "down"
  /\ docker_stopped = FALSE
  /\ image = FALSE
  /\ sources = 1
  /\ build_state = 0
  /\ inspected = "none"
  /\ perform_build = FALSE
  /\ last_build = "none"
  /\ built_sources = 0
  /\ retries = 0
  /\ inspections = 0
  /\ healthy = FALSE
  /\ warned = FALSE
  /\ exit_via = "none"

\* no request is being handled by the concurrent handlers
NoRequests == <<>>

NoServiceResult ==
  [is_none |-> TRUE, transcribed_segments |-> <<>>, error_message |-> None]

NoResponse == [status |-> 0, has_segments |-> FALSE,
               transcribed_segments |-> <<>>, error |-> None]

NoAnswer == [status |-> 0, error |-> None, summary |-> <<>>]

\* no waveform loaded yet
NoAudio == 0 - 1

Init ==
  /\ ModelsReady
  /\ upload_folder = {}
  /\ LauncherOff
  /\ mode \in {"mono", "split"}
  /\ entry = "http"
  /\ pc = "diarize"
  /\ diarization = NoDiarization
  /\ audio_ms = NoAudio
  /\ segments = <<>>
  /\ boundaries = <<>>
  /\ failed_conversions = {}
  /\ asr_outcomes = <<>>
  /\ transcribed_results = <<>>
  /\ transcription = NoText
  /\ service_result = NoServiceResult
  /\ service_response = NoResponse
  /\ diarization_response = NoResponse
  /\ full_transcription_text = <<>>
  /\ llm_calls = <<>>
  /\ response = NoAnswer
  /\ transcription_file = PreviousTranscription
  /\ summary_file = PreviousSummary
  /\ reqs = NoRequests

\* ------------------------------------------------------- pipeline function
\* diarize_and_transcribe returns v / diarize_and_transcribe_audio_segments
\* returns (segs, err)
Return_NoMessage(text, is_none, segs, err) ==
  IF mode = "mono"
  THEN /\ transcription' = [is_none |-> is_none, value |-> text]
       /\ pc' = "returned"
       /\ UNCHANGED service_result
  ELSE /\ service_result' = [is_none |-> is_none, transcribed_segments |-> segs,
                             error_message |-> None]
       /\ pc' = "service_returned"
       /\ UNCHANGED transcription

Return(text, is_none, segs, err) ==
  IF mode = "mono"
  THEN /\ transcription' = [is_none |-> is_none, value |-> text]
       /\ pc' = "returned"
       /\ UNCHANGED service_result
  ELSE /\ service_result' = [is_none |-> is_none, transcribed_segments |-> segs,
                             error_message |-> err]
       /\ pc' = "service_returned"
       /\ UNCHANGED transcription

Diarize_NoneAsEmpty ==
  /\ pc = "diarize"
  /\ \E d \in DiarizationResults :
       /\ diarization' = d
       /\ IF d.is_none
          THEN Return(<<>>, FALSE, <<>>, None)
          ELSE pc' = "load_audio" /\ UNCHANGED <<transcription, service_result>>
  /\ UNCHANGED <<mode, entry, reqs, models, upload_folder, launcher_vars,
                 failed_conversions,
                 audio_ms, segments, boundaries, asr_outcomes,
                 transcribed_results, service_response, diarization_response,
                 full_transcription_text, llm_calls, response,
                 transcription_file, summary_file>>

\* diarization = pyannote_wrapper.diarize(audio_path); None aborts.
Diarize ==
  /\ pc = "diarize"
  /\ \E d \in DiarizationResults :
       /\ diarization' = d
       /\ IF d.is_none
          THEN Return(<<>>, TRUE, <<>>, "Diarization failed")
          ELSE pc' = "load_audio" /\ UNCHANGED <<transcription, service_result>>
  /\ UNCHANGED <<mode, entry, reqs, models, upload_folder, launcher_vars,
                 failed_conversions,
                 audio_ms, segments, boundaries, asr_outcomes, transcribed_results,
                 service_response, diarization_response,
                 full_transcription_text, llm_calls, response,
                 transcription_file, summary_file>>

\* wav_tensor = load_audio(audio_path); an exception aborts.
LoadAudio ==
  /\ pc = "load_audio"
  /\ \/ /\ \E ms \in 0..MaxAudioMs : audio_ms' = ms
        /\ pc' = "segment"
        /\ UNCHANGED <<transcription, service_result>>
     \/ /\ Return(<<>>, TRUE, <<>>, "Error loading audio tensor")
        /\ UNCHANGED audio_ms
  /\ UNCHANGED <<mode, entry, reqs, models, upload_folder, launcher_vars,
                 failed_conversions,
                 diarization, segments, boundaries, asr_outcomes, transcribed_results,
                 service_response, diarization_response,
                 full_transcription_text, llm_calls, response,
                 transcription_file, summary_file>>

SegmentAudio_EmptyIsFailure ==
  /\ pc = "segment"
  /\ \E failing \in SUBSET SupportSet(diarization.turns) :
       LET r == segment_audio_from_diarization(audio_ms, diarization.turns,
                                               failing)
       IN /\ failed_conversions' = failing
          /\ segments' = r.segments
          /\ boundaries' = r.boundaries
          /\ IF r.segments = <<>>
             THEN Return(<<>>, TRUE, <<>>, "No audio segments")
             ELSE /\ pc' = "transcribe"
                  /\ UNCHANGED <<transcription, service_result>>
  /\ UNCHANGED <<mode, entry, reqs, models, upload_folder, launcher_vars,
                 diarization, audio_ms, asr_outcomes,
                 transcribed_results, service_response, diarization_response,
                 full_transcription_text, llm_calls, response,
                 transcription_file, summary_file>>

\* segments, boundaries = segment_audio_from_diarization(...); no segments
\* returns the empty result.
SegmentAudio ==
  /\ pc = "segment"
  /\ \E failing \in SUBSET SupportSet(diarization.turns) :
       LET r == segment_audio_from_diarization(audio_ms, diarization.turns,
                                               failing)
       IN /\ failed_conversions' = failing
          /\ segments' = r.segments
          /\ boundaries' = r.boundaries
          /\ IF r.segments = <<>>
             THEN Return(<<>>, FALSE, <<>>, None)
             ELSE /\ pc' = "transcribe"
                  /\ UNCHANGED <<transcription, service_result>>
  /\ UNCHANGED <<mode, entry, reqs, models, upload_folder, launcher_vars,
                 diarization, audio_ms, asr_outcomes, transcribed_results,
                 service_response, diarization_response,
                 full_transcription_text, llm_calls, response,
                 transcription_file, summary_file>>

\* One iteration of the transcription loop, its outcome among outcomes.
Transcribe(outcomes) ==
  /\ pc = "transcribe"
  /\ Len(transcribed_results) < Len(segments)
  /\ \E outcome \in outcomes :
       LET i == Len(transcribed_results) + 1
       IN /\ asr_outcomes' = Append(asr_outcomes, outcome)
          /\ transcribed_results' =
               Append(transcribed_results,
                      IF mode = "mono"
                      THEN MainUnit(diarization.turns, boundaries[i], outcome)
                      ELSE ServiceUnit(diarization.turns, boundaries[i],
                                       outcome))
  /\ UNCHANGED <<mode, entry, reqs, models, upload_folder, launcher_vars,
                 failed_conversions,
                 pc, diarization, audio_ms, segments, boundaries,
                 transcription, service_result, service_response,
                 diarization_response, full_transcription_text, llm_calls,
                 response, transcription_file, summary_file>>

TranscribeSegment == Transcribe(Outcomes)

\* mono: the merge loop and "return final_transcription.strip()".
FormatAndReturn ==
  /\ pc = "transcribe"
  /\ mode = "mono"
  /\ Len(transcribed_results) = Len(segments)
  /\ Return(FormatTranscription(transcribed_results), FALSE, <<>>, None)
  /\ UNCHANGED <<mode, entry, reqs, models, upload_folder, launcher_vars,
                 failed_conversions,
                 diarization, audio_ms, segments, boundaries,
                 asr_outcomes, transcribed_results, service_response, diarization_response,
                 full_transcription_text, llm_calls, response,
                 transcription_file, summary_file>>

\* split: "return transcribed_results, None".
ReturnSegments ==
  /\ pc = "transcribe"
  /\ mode = "split"
  /\ Len(transcribed_results) = Len(segments)
  /\ Return(<<>>, FALSE, transcribed_results, None)
  /\ UNCHANGED <<mode, entry, reqs, models, upload_folder, launcher_vars,
                 failed_conversions,
                 diarization, audio_ms, segments, boundaries,
                 asr_outcomes, transcribed_results, service_response, diarization_response,
                 full_transcription_text, llm_calls, response,
                 transcription_file, summary_file>>

\* ------------------------------------------------------------ mono caller
\* summarize_audio after diarize_and_transcribe returned: save the
\* transcript, summarize, save the summary, answer.  file_ok / summary_ok:
\* the open() of the artifact succeeded (an IOError is only logged).
SummarizeAudio ==
  /\ pc = "returned"
  /\ mode = "mono"
  /\ entry = "http"
  /\ \E file_ok \in BOOLEAN, summary_ok \in BOOLEAN :
       IF transcription.is_none
       THEN \* f.write(None) raises TypeError after open() truncated the file
            /\ transcription_file' = IF file_ok THEN <<>> ELSE transcription_file
            /\ response' = [status |-> 500,
                            error |-> IF file_ok
                                      THEN "An internal server error occurred"
                                      ELSE "Failed during transcription/diarization",
                            summary |-> <<>>]
            /\ UNCHANGED <<llm_calls, summary_file>>
       ELSE /\ transcription_file' = IF file_ok THEN transcription.value
                                     ELSE transcription_file
            /\ IF transcription.value = <<>>
               THEN /\ response' = [status |-> 200, error |-> None,
                                    summary |-> <<>>]
                    /\ UNCHANGED <<llm_calls, summary_file>>
               ELSE /\ llm_calls' = Append(llm_calls, transcription.value)
                    /\ \E summary \in LlmResults(transcription.value) :
                         IF summary.is_none
                         THEN /\ response' = [status |-> 500,
                                              error |-> "Failed during summarization",
                                              summary |-> <<>>]
                              /\ UNCHANGED summary_file
                         ELSE /\ summary_file' = IF summary_ok THEN summary.value
                                                 ELSE summary_file
                              /\ response' = [status |-> 200, error |-> None,
                                              summary |-> summary.value]
  /\ pc' = "done"
  /\ UNCHANGED <<mode, entry, reqs, models, upload_folder, launcher_vars,
                 failed_conversions,
                 diarization, audio_ms, segments, boundaries,
                 asr_outcomes, transcribed_results, transcription, service_result,
                 service_response, diarization_response,
                 full_transcription_text>>

\* --------------------------------------------------------------- CLI caller
MainCli_SummarizeEmpty ==
  /\ pc = "returned"
  /\ mode = "mono"
  /\ entry = "cli"
  /\ \E file_ok \in BOOLEAN, summary_ok \in BOOLEAN :
       IF transcription.is_none
       THEN UNCHANGED <<llm_calls, transcription_file, summary_file>>
       ELSE /\ transcription_file' = IF file_ok THEN transcription.value
                                     ELSE transcription_file
            /\ llm_calls' = Append(llm_calls, transcription.value)
            /\ \E summary \in LlmResults(transcription.value) :
                 summary_file' = IF ~summary.is_none /\ summary_ok
                                 THEN summary.value ELSE summary_file
  /\ pc' = "done"
  /\ UNCHANGED <<mode, entry, reqs, models, upload_folder, launcher_vars,
                 failed_conversions,
                 diarization, audio_ms, segments, boundaries,
                 asr_outcomes, transcribed_results, transcription,
                 service_result, service_response, diarization_response,
                 full_transcription_text, response>>

\* main() after diarize_and_transcribe returned: None ends the run; else
\* save the transcript and, unless it is empty, summarize and save the
\* summary.  Nothing is answered: the texts are printed.
MainCli ==
  /\ pc = "returned"
  /\ mode = "mono"
  /\ entry = "cli"
  /\ \E file_ok \in BOOLEAN, summary_ok \in BOOLEAN :
       IF transcription.is_none
       THEN UNCHANGED <<llm_calls, transcription_file, summary_file>>
       ELSE /\ transcription_file' = IF file_ok THEN transcription.value
                                     ELSE transcription_file
            /\ IF transcription.value = <<>>
               THEN UNCHANGED <<llm_calls, summary_file>>
               ELSE /\ llm_calls' = Append(llm_calls, transcription.value)
                    /\ \E summary \in LlmResults(transcription.value) :
                         summary_file' = IF ~summary.is_none /\ summary_ok
                                         THEN summary.value ELSE summary_file
  /\ pc' = "done"
  /\ UNCHANGED <<mode, entry, reqs, models, upload_folder, launcher_vars,
                 failed_conversions,
                 diarization, audio_ms, segments, boundaries,
                 asr_outcomes, transcribed_results, transcription,
                 service_result, service_response, diarization_response,
                 full_transcription_text, response>>

\* ----------------------------------------------------------- split callers
\* process_audio_endpoint after diarize_and_transcribe_audio_segments
\* returned.
ProcessAudioRespond ==
  /\ pc = "service_returned"
  /\ service_response' =
       IF service_result.error_message # None
       THEN [status |-> 500, has_segments |-> FALSE,
             transcribed_segments |-> <<>>,
             error |-> service_result.error_message]
       ELSE IF service_result.is_none
       THEN [status |-> 500, has_segments |-> FALSE,
             transcribed_segments |-> <<>>, error |-> "An unknown error occurred"]
       ELSE [status |-> 200, has_segments |-> TRUE,
             transcribed_segments |-> service_result.transcribed_segments,
             error |-> None]
  /\ pc' = "service_responded"
  /\ UNCHANGED <<mode, entry, reqs, models, upload_folder, launcher_vars,
                 failed_conversions,
                 diarization, audio_ms, segments, boundaries,
                 asr_outcomes, transcribed_results, transcription, service_result,
                 diarization_response, full_transcription_text, llm_calls,
                 response, transcription_file, summary_file>>

\* DiarizationServiceClient.process_audio_file: the JSON body of the answer,
\* of an error answer too; a transport failure becomes an error dictionary.
ProcessAudioFile ==
  /\ pc = "service_responded"
  /\ \E delivered \in BOOLEAN :
       diarization_response' =
         IF delivered
         THEN [service_response EXCEPT !.status = 0]
         ELSE [status |-> 0, has_segments |-> FALSE,
               transcribed_segments |-> <<>>,
               error |-> "Connection error to diarization service"]
  /\ pc' = "client_returned"
  /\ UNCHANGED <<mode, entry, reqs, models, upload_folder, launcher_vars,
                 failed_conversions,
                 diarization, audio_ms, segments, boundaries,
                 asr_outcomes, transcribed_results, transcription, service_result,
                 service_response, full_transcription_text, llm_calls,
                 response, transcription_file, summary_file>>

\* summarize_meeting_endpoint after process_audio_file returned: merge,
\* save the transcript, summarize, save the summary, answer.
SummarizeMeeting ==
  /\ pc = "client_returned"
  /\ \E file_ok \in BOOLEAN, summary_ok \in BOOLEAN :
       IF ~diarization_response.has_segments
       THEN /\ response' = [status |-> 500,
                            error |-> "Failed during transcription/diarization",
                            summary |-> <<>>]
            /\ UNCHANGED <<full_transcription_text, llm_calls,
                           transcription_file, summary_file>>
       ELSE LET text == UiFormatTranscription(
                          diarization_response.transcribed_segments)
            IN /\ full_transcription_text' = text
               /\ transcription_file' = IF file_ok THEN text
                                        ELSE transcription_file
               /\ IF text = <<>>
                  THEN /\ summary_file' = IF summary_ok THEN NoContentSummary
                                          ELSE summary_file
                       /\ response' = [status |-> 200, error |-> None,
                                       summary |-> NoContentSummary]
                       /\ UNCHANGED llm_calls
                  ELSE /\ llm_calls' = Append(llm_calls, text)
                       /\ \E summary \in LlmResults(text) :
                            IF summary.is_none
                            THEN /\ response' =
                                      [status |-> 500,
                                       error |-> "Failed during summarization by LLM",
                                       summary |-> <<>>]
                                 /\ UNCHANGED summary_file
                            ELSE /\ summary_file' = IF summary_ok
                                                    THEN summary.value
                                                    ELSE summary_file
                                 /\ response' = [status |-> 200, error |-> None,
                                                 summary |-> summary.value]
  /\ pc' = "done"
  /\ UNCHANGED <<mode, entry, reqs, models, upload_folder, launcher_vars,
                 failed_conversions,
                 diarization, audio_ms, segments, boundaries,
                 asr_outcomes, transcribed_results, transcription, service_result,
                 service_response, diarization_response>>

\* --------------------------------------------------------- specifications
Next ==
  \/ Diarize
  \/ LoadAudio
  \/ SegmentAudio
  \/ TranscribeSegment
  \/ FormatAndReturn
  \/ ReturnSegments
  \/ SummarizeAudio
  \/ ProcessAudioRespond
  \/ ProcessAudioFile
  \/ SummarizeMeeting

Spec == Init /\ [][Next]_vars

\* The request under each of its three callers: the two /summarize
\* endpoints and the command line.
CallersInit ==
  /\ ModelsReady
  /\ upload_folder = {}
  /\ LauncherOff
  /\ \/ mode \in {"mono", "split"} /\ entry = "http"
     \/ mode = "mono" /\ entry = "cli"
  /\ pc = "diarize"
  /\ diarization = NoDiarization
  /\ audio_ms = NoAudio
  /\ segments = <<>>
  /\ boundaries = <<>>
  /\ failed_conversions = {}
  /\ asr_outcomes = <<>>
  /\ transcribed_results = <<>>
  /\ transcription = NoText
  /\ service_result = NoServiceResult
  /\ service_response = NoResponse
  /\ diarization_response = NoResponse
  /\ full_transcription_text = <<>>
  /\ llm_calls = <<>>
  /\ response = NoAnswer
  /\ transcription_file = PreviousTranscription
  /\ summary_file = PreviousSummary
  /\ reqs = NoRequests

CallersNext ==
  \/ Diarize
  \/ LoadAudio
  \/ SegmentAudio
  \/ TranscribeSegment
  \/ FormatAndReturn
  \/ ReturnSegments
  \/ SummarizeAudio
  \/ MainCli
  \/ ProcessAudioRespond
  \/ ProcessAudioFile
  \/ SummarizeMeeting

CallersSpec == CallersInit /\ [][CallersNext]_vars

\* The request from the transcription loop on, for a diarization of up to
\* MaxUnits separate one-millisecond turns (one segment each, any labels).
GridTurn(k, sp) ==
  [start |-> (k - 1) * (TicksPerMs + 1),
   end |-> (k - 1) * (TicksPerMs + 1) + TicksPerMs,
   speaker |-> sp]

GridDiarizations ==
  UNION {{ {GridTurn(k, f[k]) : k \in 1..n} : f \in [1..n -> Speakers] } :
           n \in 0..MaxUnits}

LoopInit ==
  /\ ModelsReady
  /\ upload_folder = {}
  /\ LauncherOff
  /\ mode \in {"mono", "split"}
  /\ entry = "http"
  /\ pc = "transcribe"
  /\ \E d \in GridDiarizations :
       LET ms == Cardinality(d) * 2
           r == segment_audio_from_diarization(ms, d, {})
       IN /\ diarization = Annotation(d)
          /\ audio_ms = ms
          /\ segments = r.segments
          /\ boundaries = r.boundaries
          /\ Len(r.segments) = Cardinality(d)
          /\ Cardinality(d) > 0
  /\ failed_conversions = {}
  /\ asr_outcomes = <<>>
  /\ transcribed_results = <<>>
  /\ transcription = NoText
  /\ service_result = NoServiceResult
  /\ service_response = NoResponse
  /\ diarization_response = NoResponse
  /\ full_transcription_text = <<>>
  /\ llm_calls = <<>>
  /\ response = NoAnswer
  /\ transcription_file = PreviousTranscription
  /\ summary_file = PreviousSummary
  /\ reqs = NoRequests

\* The loop with a speaker lookup that does not raise.
LoopOutcomes == {o \in Outcomes : ~o.lookup_raises}

LoopTranscribeSegment == Transcribe(LoopOutcomes)

LoopNext ==
  \/ LoopTranscribeSegment
  \/ FormatAndReturn
  \/ ReturnSegments
  \/ SummarizeAudio
  \/ ProcessAudioRespond
  \/ ProcessAudioFile
  \/ SummarizeMeeting

LoopSpec == LoopInit /\ [][LoopNext]_vars

\* One iteration of the transcription loop taken alone, on a unit of any
\* span within the audio: the speaker lookup as a function of the diarization
\* and the span.
Spans == {<<a, b>> \in (0..MaxTick) \X (0..MaxTick) : a < b}

LookupInit ==
  /\ ModelsReady
  /\ upload_folder = {}
  /\ LauncherOff
  /\ mode \in {"mono", "split"}
  /\ entry = "http"
  /\ pc = "transcribe"
  /\ \E d \in TurnSets(MaxTurns) : diarization = Annotation(d)
  /\ \E span \in Spans :
       /\ boundaries = <<span>>
       /\ segments = <<<<IntMs(span[1]), IntMs(span[2])>>>>
  /\ audio_ms = IntMs(MaxTick)
  /\ failed_conversions = {}
  /\ asr_outcomes = <<>>
  /\ transcribed_results = <<>>
  /\ transcription = NoText
  /\ service_result = NoServiceResult
  /\ service_response = NoResponse
  /\ diarization_response = NoResponse
  /\ full_transcription_text = <<>>
  /\ llm_calls = <<>>
  /\ response = NoAnswer
  /\ transcription_file = PreviousTranscription
  /\ summary_file = PreviousSummary
  /\ reqs = NoRequests

LookupNext == TranscribeSegment

LookupSpec == LookupInit /\ [][LookupNext]_vars

\* ---------------------------------------------------- concurrent requests
Requests == 1..MaxRequests

\* What the models give for an uploaded audio: the diarization, whether the
\* waveform loads, its length, the intervals whose conversion fails and the
\* outcome of each transcription.
Audio(d, load_ok, ms, failing, outcomes) ==
  [diarization |-> d, load_ok |-> load_ok, audio_ms |-> ms,
   failing |-> failing, outcomes |-> outcomes]

Heard(text) == [raised |-> FALSE, result |-> text, lookup_raises |-> FALSE]

Audios ==
  {Audio(NoDiarization, TRUE, 2, {}, <<>>),
   Audio(Annotation({}), TRUE, 2, {}, <<>>),
   Audio(Annotation({[start |-> 0, end |-> 2, speaker |-> "SPEAKER_0"]}),
         TRUE, 2, {}, <<Heard(<<"hi">>)>>),
   Audio(Annotation({[start |-> 0, end |-> 2, speaker |-> "SPEAKER_1"]}),
         TRUE, 2, {}, <<Heard(<<"hi">>)>>),
   Audio(Annotation({[start |-> 0, end |-> 2, speaker |-> "SPEAKER_0"],
                     [start |-> 3, end |-> 4, speaker |-> "SPEAKER_1"]}),
         TRUE, 2, {}, <<Heard(<<"hi">>), Heard(<<" ", "there", " ">>)>>)}

\* diarize_and_transcribe as a whole, on one audio.
diarize_and_transcribe(audio) ==
  IF audio.diarization.is_none \/ ~audio.load_ok THEN NoText
  ELSE LET r == segment_audio_from_diarization(
                  audio.audio_ms, audio.diarization.turns, audio.failing)
       IN IF r.segments = <<>> THEN SomeText(<<>>)
          ELSE SomeText(FormatTranscription(
                 [i \in 1..Len(r.segments) |->
                    MainUnit(audio.diarization.turns, r.boundaries[i],
                             audio.outcomes[i])]))

\* diarize_and_transcribe_audio_segments as a whole, on one audio.
diarize_and_transcribe_audio_segments(audio) ==
  IF audio.diarization.is_none
  THEN [is_none |-> TRUE, transcribed_segments |-> <<>>,
        error_message |-> "Diarization failed"]
  ELSE IF ~audio.load_ok
  THEN [is_none |-> TRUE, transcribed_segments |-> <<>>,
        error_message |-> "Error loading audio tensor"]
  ELSE LET r == segment_audio_from_diarization(
                  audio.audio_ms, audio.diarization.turns, audio.failing)
       IN [is_none |-> FALSE,
           transcribed_segments |->
             [i \in 1..Len(r.segments) |->
                ServiceUnit(audio.diarization.turns, r.boundaries[i],
                            audio.outcomes[i])],
           error_message |-> None]

\* The JSON body process_audio_endpoint answers with, as process_audio_file
\* returns it (delivered: the HTTP exchange succeeded).
process_audio_file(audio, delivered) ==
  LET result == diarize_and_transcribe_audio_segments(audio)
  IN IF ~delivered
     THEN [status |-> 0, has_segments |-> FALSE, transcribed_segments |-> <<>>,
           error |-> "Connection error to diarization service"]
     ELSE IF result.error_message # None
     THEN [status |-> 0, has_segments |-> FALSE, transcribed_segments |-> <<>>,
           error |-> result.error_message]
     ELSE [status |-> 0, has_segments |-> TRUE,
           transcribed_segments |-> result.transcribed_segments,
           error |-> None]

\* The locals of a /summarize handler that has not started.
IdleRequest ==
  [pc |-> "idle", upload |-> "ok", saved |-> TRUE,
   audio |-> Audio(NoDiarization, TRUE, 0, {}, <<>>),
   delivered |-> TRUE, service_saved |-> TRUE, service_status |-> 0,
   diarized |-> FALSE, llm_ok |-> TRUE, file_open |-> FALSE,
   transcription |-> NoText,
   diarization_response |-> NoResponse, summary |-> NoText,
   response |-> NoAnswer]

single_vars ==
  <<entry, pc, diarization, audio_ms, failed_conversions, segments,
    boundaries, asr_outcomes, transcribed_results, transcription,
    service_result, service_response, diarization_response,
    full_transcription_text, llm_calls, response>>

Answer(status, error, summary) ==
  [status |-> status, error |-> error, summary |-> summary]

\* the Flask application that serves /summarize
Host == IF mode = "mono" THEN "api" ELSE "ui_client"

\* what a request carries as its upload
Uploads == {"ok", "no_part", "no_name", "bad_type"}

\* the answers to a request without a usable upload
UploadError(upload) ==
  CASE upload = "no_part" -> "No audio file part in the request"
    [] upload = "no_name" -> "No selected file"
    [] OTHER -> "Invalid file type"

ModelsMissing_AsrOnly == gigaam_model = None

\* the tests at the top of summarize_audio and of process_audio_endpoint
ModelsMissing == gigaam_model = None \/ pipeline = None

\* the error of the 503 answer
ModelsError(app) ==
  IF app = "api"
  THEN IF gigaam_model = None
       THEN "GigaAM model failed to load on server startup"
       ELSE "Pyannote pipeline failed to load on server startup"
  ELSE IF pipeline = None
       THEN "Pyannote pipeline not initialized on server"
       ELSE "GigaAM model not initialized on server"

\* the tests diarize_and_transcribe and diarize_and_transcribe_audio_segments
\* make before they diarize
ModelsUsable == pipeline # None /\ gigaam_model # None

\* the error diarize_and_transcribe_audio_segments returns without models
NotLoaded ==
  [is_none |-> TRUE, transcribed_segments |-> <<>>,
   error_message |-> IF pipeline = None THEN "Pyannote pipeline not loaded"
                     ELSE "GigaAM model not loaded"]

\* the directory tempfile.mkdtemp makes for request r under the upload
\* folder of an application, and the audio file stored in it
TempDir(app, r) == [app |-> app, dir |-> r, file |-> ""]

TempAudio(app, r) == [app |-> app, dir |-> r, file |-> "audio"]

mkdtemp(folder, app, r) == folder \cup {TempDir(app, r)}

\* file.save(temp_audio_path) (written: the file, or a part of it, is on
\* the disk when the call ends)
save(folder, app, r, written) ==
  IF written THEN folder \cup {TempAudio(app, r)} ELSE folder

\* os.remove of a path that exists
remove(folder, path) == folder \ {path}

\* os.rmdir: removes an empty directory, raises OSError for any other
rmdir(folder, d) ==
  IF \E p \in folder : p.app = d.app /\ p.dir = d.dir /\ p.file # ""
  THEN folder
  ELSE folder \ {d}

RemoveUpload_DirOnly(folder, app, r) == rmdir(folder, TempDir(app, r))

\* The finally block of a handler: the temporary audio file is removed if
\* it exists, then the directory.
RemoveUpload(folder, app, r) ==
  rmdir(remove(folder, TempAudio(app, r)), TempDir(app, r))

\* The handler of /summarize up to file.save(temp_audio_path): the test of
\* the models (monolith), the tests of the upload, tempfile.mkdtemp and the
\* save (saved: it succeeded; partial: a failed save left a part of the
\* file).  A save that raises is answered by the except clause and cleaned
\* up by the finally block.
ReceiveRequest(r) ==
  /\ reqs # NoRequests
  /\ reqs[r].pc = "idle"
  /\ \E upload \in Uploads, audio \in Audios,
        saved \in BOOLEAN, partial \in BOOLEAN :
       IF mode = "mono" /\ ModelsMissing
       THEN /\ reqs' = [reqs EXCEPT ![r] =
                 [@ EXCEPT !.pc = "done",
                           !.response =
                             Answer(503, ModelsError("api"), <<>>)]]
            /\ UNCHANGED upload_folder
       ELSE IF upload # "ok"
       THEN /\ reqs' = [reqs EXCEPT ![r] =
                 [@ EXCEPT !.pc = "done",
                           !.upload = upload,
                           !.response =
                             Answer(400, UploadError(upload), <<>>)]]
            /\ UNCHANGED upload_folder
       ELSE IF ~saved
       THEN /\ reqs' = [reqs EXCEPT ![r] =
                 [@ EXCEPT !.pc = "done",
                           !.saved = FALSE,
                           !.response =
                             Answer(500, "An internal server error occurred",
                                    <<>>)]]
            /\ upload_folder' =
                 RemoveUpload(save(mkdtemp(upload_folder, Host, r),
                                   Host, r, partial),
                              Host, r)
       ELSE /\ reqs' = [reqs EXCEPT ![r] =
                 [@ EXCEPT !.pc = "received", !.audio = audio]]
            /\ upload_folder' =
                 save(mkdtemp(upload_folder, Host, r), Host, r, TRUE)
  /\ UNCHANGED <<mode, single_vars, models, launcher_vars,
                 transcription_file, summary_file>>

\* the body of an error answer of /process_audio, as process_audio_file
\* returns it
ServiceError(error) ==
  [status |-> 0, has_segments |-> FALSE, transcribed_segments |-> <<>>,
   error |-> error]

\* Split deployment: process_audio_file posts the temporary file to
\* /process_audio (delivered: the HTTP exchange succeeds), whose handler
\* tests the models, makes its own temporary directory and saves the upload
\* in it (saved, partial: as in ReceiveRequest).
PostAudio(r) ==
  /\ reqs # NoRequests
  /\ mode = "split"
  /\ reqs[r].pc = "received"
  /\ \E delivered \in BOOLEAN, saved \in BOOLEAN, partial \in BOOLEAN :
       IF ~delivered
       THEN /\ reqs' = [reqs EXCEPT ![r] =
                 [@ EXCEPT !.pc = "transcribed",
                           !.delivered = FALSE,
                           !.diarization_response =
                             process_audio_file(reqs[r].audio, FALSE)]]
            /\ UNCHANGED upload_folder
       ELSE IF ModelsMissing
       THEN /\ reqs' = [reqs EXCEPT ![r] =
                 [@ EXCEPT !.pc = "transcribed",
                           !.service_status = 503,
                           !.diarization_response =
                             ServiceError(ModelsError("diarization_service"))]]
            /\ UNCHANGED upload_folder
       ELSE IF ~saved
       THEN /\ reqs' = [reqs EXCEPT ![r] =
                 [@ EXCEPT !.pc = "transcribed",
                           !.service_saved = FALSE,
                           !.service_status = 500,
                           !.diarization_response =
                             ServiceError("An internal server error occurred")]]
            /\ upload_folder' =
                 RemoveUpload(save(mkdtemp(upload_folder,
                                           "diarization_service", r),
                                   "diarization_service", r, partial),
                              "diarization_service", r)
       ELSE /\ reqs' = [reqs EXCEPT ![r] = [@ EXCEPT !.pc = "in_service"]]
            /\ upload_folder' =
                 save(mkdtemp(upload_folder, "diarization_service", r),
                      "diarization_service", r, TRUE)
  /\ UNCHANGED <<mode, single_vars, models, launcher_vars,
                 transcription_file, summary_file>>

\* The call of the pipeline on the request's own temporary file.  In the
\* split deployment it is the rest of process_audio_endpoint: the call, the
\* answer and the finally block.
RunPipeline(r) ==
  /\ reqs # NoRequests
  /\ IF mode = "mono"
     THEN /\ reqs[r].pc = "received"
          /\ reqs' = [reqs EXCEPT ![r] =
               [@ EXCEPT !.pc = "transcribed",
                         !.diarized = ModelsUsable,
                         !.transcription =
                           IF ModelsUsable
                           THEN diarize_and_transcribe(reqs[r].audio)
                           ELSE NoText]]
          /\ UNCHANGED upload_folder
     ELSE /\ reqs[r].pc = "in_service"
          /\ reqs' = [reqs EXCEPT ![r] =
               [@ EXCEPT !.pc = "transcribed",
                         !.diarized = ModelsUsable,
                         !.service_status =
                           IF ModelsUsable
                                /\ process_audio_file(reqs[r].audio, TRUE)
                                     .has_segments
                           THEN 200 ELSE 500,
                         !.diarization_response =
                           IF ModelsUsable
                           THEN process_audio_file(reqs[r].audio, TRUE)
                           ELSE ServiceError(NotLoaded.error_message)]]
          /\ upload_folder' =
               RemoveUpload(upload_folder, "diarization_service", r)
  /\ UNCHANGED <<mode, single_vars, models, launcher_vars,
                 transcription_file, summary_file>>

\* text written at offset 0 of a file that holds content: what lies past
\* the end of the text stays
Overwrite(content, text) ==
  text \o SubSeq(content, Len(text) + 1, Len(content))

\* Up to open(transcription_file, 'w'), which empties last_transcription.txt
\* (file_ok: the open succeeded; an IOError is only logged).  The UI handler
\* first tests the service's answer and runs its merge loop.
OpenTranscription(r) ==
  /\ reqs # NoRequests
  /\ reqs[r].pc = "transcribed"
  /\ IF mode = "split" /\ ~reqs[r].diarization_response.has_segments
     THEN /\ reqs' = [reqs EXCEPT ![r] =
               [@ EXCEPT !.pc = "done",
                         !.response = Answer(500,
                           "Failed during transcription/diarization",
                           <<>>)]]
          /\ upload_folder' = RemoveUpload(upload_folder, Host, r)
          /\ UNCHANGED transcription_file
     ELSE \E file_ok \in BOOLEAN :
            /\ transcription_file' =
                 IF file_ok THEN <<>> ELSE transcription_file
            /\ reqs' = [reqs EXCEPT ![r] =
                 [@ EXCEPT !.pc = "writing",
                           !.file_open = file_ok,
                           !.transcription =
                             IF mode = "mono" THEN @
                             ELSE SomeText(UiFormatTranscription(
                                    reqs[r].diarization_response
                                           .transcribed_segments))]]
            /\ UNCHANGED upload_folder
  /\ UNCHANGED <<mode, single_vars, models, launcher_vars,
                 summary_file>>

\* f.write(transcription) and the close of the file, which puts the text at
\* the start of last_transcription.txt, and the tests that follow.
SaveTranscription(r) ==
  /\ reqs # NoRequests
  /\ reqs[r].pc = "writing"
  /\ LET q == reqs[r]
     IN IF q.transcription.is_none
        THEN \* mono: f.write(None) raises TypeError if the file was opened
             /\ reqs' = [reqs EXCEPT ![r] =
                  [@ EXCEPT !.pc = "done",
                            !.response = Answer(500,
                              IF q.file_open
                              THEN "An internal server error occurred"
                              ELSE "Failed during transcription/diarization",
                              <<>>)]]
             /\ upload_folder' = RemoveUpload(upload_folder, Host, r)
             /\ UNCHANGED transcription_file
        ELSE /\ transcription_file' =
                  IF q.file_open
                  THEN Overwrite(transcription_file, q.transcription.value)
                  ELSE transcription_file
             /\ reqs' = [reqs EXCEPT ![r] =
                  IF q.transcription.value # <<>>
                  THEN [@ EXCEPT !.pc = "saved"]
                  ELSE IF mode = "mono"
                  THEN [@ EXCEPT !.pc = "done",
                                 !.response = Answer(200, None, <<>>)]
                  ELSE [@ EXCEPT !.pc = "summarized",
                                 !.summary = SomeText(NoContentSummary)]]
             /\ upload_folder' =
                  IF q.transcription.value = <<>> /\ mode = "mono"
                  THEN RemoveUpload(upload_folder, Host, r)
                  ELSE upload_folder
  /\ UNCHANGED <<mode, single_vars, models, launcher_vars,
                 summary_file>>

\* the summarizer's answer for a text (ok: the LLM call succeeded)
summarize(text, ok) == IF ok THEN SomeText(SummaryOf(text)) ELSE NoText

HandleSummarize_FromFile(r) ==
  /\ reqs # NoRequests
  /\ reqs[r].pc = "saved"
  /\ \E llm_ok \in BOOLEAN :
       LET summary == summarize(transcription_file, llm_ok)
       IN /\ reqs' = [reqs EXCEPT ![r] =
               IF summary.is_none
               THEN [@ EXCEPT !.pc = "done",
                              !.llm_ok = llm_ok,
                              !.response = Answer(500,
                                IF mode = "mono"
                                THEN "Failed during summarization"
                                ELSE "Failed during summarization by LLM",
                                <<>>)]
               ELSE [@ EXCEPT !.pc = "summarized", !.llm_ok = llm_ok,
                              !.summary = summary]]
          /\ upload_folder' =
               IF summary.is_none
               THEN RemoveUpload(upload_folder, Host, r)
               ELSE upload_folder
  /\ UNCHANGED <<mode, single_vars, models, launcher_vars,
                 transcription_file, summary_file>>

\* The call of the summarizer on the handler's transcript.
HandleSummarize(r) ==
  /\ reqs # NoRequests
  /\ reqs[r].pc = "saved"
  /\ \E llm_ok \in BOOLEAN :
       LET summary == summarize(reqs[r].transcription.value, llm_ok)
       IN /\ reqs' = [reqs EXCEPT ![r] =
               IF summary.is_none
               THEN [@ EXCEPT !.pc = "done",
                              !.llm_ok = llm_ok,
                              !.response = Answer(500,
                                IF mode = "mono"
                                THEN "Failed during summarization"
                                ELSE "Failed during summarization by LLM",
                                <<>>)]
               ELSE [@ EXCEPT !.pc = "summarized", !.llm_ok = llm_ok,
                              !.summary = summary]]
          /\ upload_folder' =
               IF summary.is_none
               THEN RemoveUpload(upload_folder, Host, r)
               ELSE upload_folder
  /\ UNCHANGED <<mode, single_vars, models, launcher_vars,
                 transcription_file, summary_file>>

\* open(summary_file, 'w'), which empties last_summary.txt.
OpenSummary(r) ==
  /\ reqs # NoRequests
  /\ reqs[r].pc = "summarized"
  /\ \E file_ok \in BOOLEAN :
       /\ summary_file' = IF file_ok THEN <<>> ELSE summary_file
       /\ reqs' = [reqs EXCEPT ![r] =
            [@ EXCEPT !.pc = "summary_writing", !.file_open = file_ok]]
  /\ UNCHANGED <<mode, single_vars, models, launcher_vars, upload_folder,
                 transcription_file>>

\* f.write(summary), the close of last_summary.txt, the answer and the
\* finally block.
SaveSummary(r) ==
  /\ reqs # NoRequests
  /\ reqs[r].pc = "summary_writing"
  /\ summary_file' = IF reqs[r].file_open
                     THEN Overwrite(summary_file, reqs[r].summary.value)
                     ELSE summary_file
  /\ reqs' = [reqs EXCEPT ![r] =
       [@ EXCEPT !.pc = "done",
                 !.response = Answer(200, None, reqs[r].summary.value)]]
  /\ upload_folder' = RemoveUpload(upload_folder, Host, r)
  /\ UNCHANGED <<mode, single_vars, models, launcher_vars,
                 transcription_file>>

\* The models are loaded once, at start-up; each load may fail.  The
\* diarization service started by its own main serves only with both models
\* loaded; served otherwise it has loaded neither.
ConcInit ==
  /\ mode \in {"mono", "split"}
  /\ gigaam_model \in {"rnnt", None}
  /\ pipeline \in {"pipeline", None}
  /\ mode = "split" => (gigaam_model = None <=> pipeline = None)
  /\ upload_folder = {}
  /\ LauncherOff
  /\ entry = "http"
  /\ pc = "diarize"
  /\ diarization = NoDiarization
  /\ audio_ms = NoAudio
  /\ segments = <<>>
  /\ boundaries = <<>>
  /\ failed_conversions = {}
  /\ asr_outcomes = <<>>
  /\ transcribed_results = <<>>
  /\ transcription = NoText
  /\ service_result = NoServiceResult
  /\ service_response = NoResponse
  /\ diarization_response = NoResponse
  /\ full_transcription_text = <<>>
  /\ llm_calls = <<>>
  /\ response = NoAnswer
  /\ transcription_file = PreviousTranscription
  /\ summary_file = PreviousSummary
  /\ reqs = [r \in Requests |-> IdleRequest]

\* Flask serves each request in a thread of its own: the handlers' steps
\* interleave in any order.
ConcNext ==
  \E r \in Requests :
    \/ ReceiveRequest(r)
    \/ PostAudio(r)
    \/ RunPipeline(r)
    \/ OpenTranscription(r)
    \/ SaveTranscription(r)
    \/ HandleSummarize(r)
    \/ OpenSummary(r)
    \/ SaveSummary(r)

ConcSpec == ConcInit /\ [][ConcNext]_vars

\* ------------------------------------------------------------------ run.py
\* runs of run.py in one behaviour
MaxStarts == 2

\* distinct contents of the watched sources
MaxVersions == 2

max_retries == 12

\* what get_current_source_state returns: the hashes of Dockerfile and of
\* diarization_service/, one value per content
SourceStates == 1..MaxVersions

\* load_previous_source_state without a decodable state file: {}
NoBuildState == 0

get_current_source_state == sources

load_previous_source_state == build_state

PerformBuild_ImageOnly(found, current_state, previous_state) == ~found

\* perform_build of start_docker_services (found: docker.image.inspect
\* returned the image)
PerformBuild(found, current_state, previous_state) ==
  ~found \/ current_state # previous_state

\* The process ends: stop_docker_services, registered with atexit, runs
\* (down_ok: docker.compose.down succeeded).
ProcessExit(via, down_ok) ==
  /\ lpc' = "exited"
  /\ exit_via' = via
  /\ compose' = IF docker # None /\ down_ok THEN "down" ELSE compose

\* main up to the return of start_ui_client: a new process, the handlers
\* registered, Popen and the check after three seconds (started: the UI
\* client runs, has exited already, or Popen raised).
StartUiClient ==
  /\ lpc \in {"stopped", "exited"}
  /\ starts < MaxStarts
  /\ starts' = starts + 1
  /\ docker' = None
  /\ ui_stop' = "none"
  /\ docker_stopped' = FALSE
  /\ inspected' = "none"
  /\ perform_build' = FALSE
  /\ retries' = 0
  /\ inspections' = 0
  /\ healthy' = FALSE
  /\ warned' = FALSE
  /\ exit_via' = "none"
  /\ \E started \in {"running", "exited", "failed"} :
       /\ ui_process' = IF started = "failed" THEN None ELSE started
       /\ lpc' = IF started = "running" THEN "check_ui" ELSE "handle_exit"
  /\ UNCHANGED <<compose, image, sources, build_state, last_build,
                 built_sources>>
  /\ UNCHANGED <<mode, single_vars, reqs, models, upload_folder,
                 transcription_file, summary_file>>

\* main: "if ui_process is None or ui_process.poll() is not None"
CheckUi ==
  /\ lpc = "check_ui"
  /\ IF ui_process = "running"
     THEN /\ lpc' = "docker_init"
          /\ UNCHANGED <<exit_via, compose>>
     ELSE ProcessExit("sys_exit_1", TRUE)
  /\ UNCHANGED <<starts, ui_process, ui_stop, docker, docker_stopped, image,
                 sources, build_state, inspected, perform_build, last_build,
                 built_sources, retries, inspections, healthy, warned>>
  /\ UNCHANGED <<mode, single_vars, reqs, models, upload_folder,
                 transcription_file, summary_file>>

\* start_docker_services up to the Docker client (found: docker-compose.yml
\* exists; without it the launcher exits with 1).
InitDocker ==
  /\ lpc = "docker_init"
  /\ \E found \in BOOLEAN :
       IF found
       THEN /\ docker' = "client"
            /\ lpc' = "check_image"
            /\ UNCHANGED <<exit_via, compose>>
       ELSE /\ ProcessExit("sys_exit_1", TRUE)
            /\ UNCHANGED docker
  /\ UNCHANGED <<starts, ui_process, ui_stop, docker_stopped, image,
                 sources, build_state, inspected, perform_build, last_build,
                 built_sources, retries, inspections, healthy, warned>>
  /\ UNCHANGED <<mode, single_vars, reqs, models, upload_folder,
                 transcription_file, summary_file>>

\* The rebuild decision: docker.image.inspect, then the comparison of the
\* current source state with the saved one; any failure of the inspection
\* asks for a build.
CheckImage ==
  /\ lpc = "check_image"
  /\ \E outcome \in {"found", "no_such_image", "error"} :
       /\ outcome = "found" => image
       /\ outcome = "no_such_image" => ~image
       /\ inspected' = outcome
       /\ perform_build' =
            PerformBuild(outcome = "found", get_current_source_state,
                         load_previous_source_state)
  /\ lpc' = "compose_up"
  /\ UNCHANGED <<starts, ui_process, ui_stop, docker, compose,
                 docker_stopped, image, sources, build_state, last_build,
                 built_sources, retries, inspections, healthy, warned,
                 exit_via>>
  /\ UNCHANGED <<mode, single_vars, reqs, models, upload_folder,
                 transcription_file, summary_file>>

\* docker.compose.up(detach=True, build=perform_build) (outcome: it returned
\* or raised DockerException, which ends the launcher with 1; built: the
\* build left the image under the name that is inspected).
ComposeUp ==
  /\ lpc = "compose_up"
  /\ \E outcome \in {"up", "failed"}, built \in BOOLEAN, down_ok \in BOOLEAN :
       IF outcome = "up"
       THEN /\ compose' = "up"
            /\ image' = (image \/ (perform_build /\ built))
            /\ lpc' = "save_state"
            /\ UNCHANGED exit_via
       ELSE /\ ProcessExit("sys_exit_1", down_ok)
            /\ UNCHANGED image
  /\ UNCHANGED <<starts, ui_process, ui_stop, docker, docker_stopped,
                 sources, build_state, inspected, perform_build, last_build,
                 built_sources, retries, inspections, healthy, warned>>
  /\ UNCHANGED <<mode, single_vars, reqs, models, upload_folder,
                 transcription_file, summary_file>>

\* After a build: docker.image.inspect and save_source_state of the current
\* source state (inspect_ok: the inspection returned the image; save_ok: the
\* state file was written, an IOError is only logged).
SaveBuildState ==
  /\ lpc = "save_state"
  /\ IF perform_build
     THEN \E inspect_ok \in BOOLEAN, save_ok \in BOOLEAN :
            /\ inspect_ok => image
            /\ build_state' = IF inspect_ok /\ save_ok
                              THEN get_current_source_state
                              ELSE build_state
            /\ last_build' = IF ~image THEN "image_missing"
                             ELSE IF inspect_ok /\ save_ok THEN "saved"
                             ELSE "not_saved"
            /\ built_sources' = sources
     ELSE UNCHANGED <<build_state, last_build, built_sources>>
  /\ retries' = 0
  /\ lpc' = "wait_healthy"
  /\ UNCHANGED <<starts, ui_process, ui_stop, docker, compose,
                 docker_stopped, image, sources, inspected, perform_build,
                 inspections, healthy, warned, exit_via>>
  /\ UNCHANGED <<mode, single_vars, reqs, models, upload_folder,
                 transcription_file, summary_file>>

\* what one inspection of the container can give
HealthOutcomes == {"healthy", "running", "not_running", "error"}

HealthStep_ErrorsNotCounted(n, outcome) ==
  [retries |-> IF outcome \in {"healthy", "error"} THEN n ELSE n + 1,
   stop |-> outcome = "healthy"]

\* One iteration of the wait-for-healthy loop: break when the container is
\* running and healthy, else retries += 1 (after an exception too).
HealthStep(n, outcome) ==
  [retries |-> IF outcome = "healthy" THEN n ELSE n + 1,
   stop |-> outcome = "healthy"]

InspectHealth ==
  /\ lpc = "wait_healthy"
  /\ retries < max_retries
  /\ \E outcome \in HealthOutcomes :
       LET step == HealthStep(retries, outcome)
       IN /\ retries' = step.retries
          /\ healthy' = step.stop
          /\ lpc' = IF step.stop THEN "waited" ELSE "wait_healthy"
  /\ inspections' = inspections + 1
  /\ UNCHANGED <<starts, ui_process, ui_stop, docker, compose,
                 docker_stopped, image, sources, build_state, inspected,
                 perform_build, last_build, built_sources, warned, exit_via>>
  /\ UNCHANGED <<mode, single_vars, reqs, models, upload_folder,
                 transcription_file, summary_file>>

\* After the loop: the warning "if retries == max_retries", and the return
\* to main, which waits for the UI client.
AfterWait ==
  /\ \/ lpc = "waited"
     \/ lpc = "wait_healthy" /\ ~(retries < max_retries)
  /\ warned' = (retries = max_retries)
  /\ lpc' = "wait_ui"
  /\ UNCHANGED <<starts, ui_process, ui_stop, docker, compose,
                 docker_stopped, image, sources, build_state, inspected,
                 perform_build, last_build, built_sources, retries,
                 inspections, healthy, exit_via>>
  /\ UNCHANGED <<mode, single_vars, reqs, models, upload_folder,
                 transcription_file, summary_file>>

\* main: ui_process.wait() returns when the UI client has exited, and the
\* script ends.
WaitUi ==
  /\ lpc = "wait_ui"
  /\ ui_process = "exited"
  /\ \E down_ok \in BOOLEAN : ProcessExit("finished", down_ok)
  /\ UNCHANGED <<starts, ui_process, ui_stop, docker, docker_stopped, image,
                 sources, build_state, inspected, perform_build, last_build,
                 built_sources, retries, inspections, healthy, warned>>
  /\ UNCHANGED <<mode, single_vars, reqs, models, upload_folder,
                 transcription_file, summary_file>>

\* the UI client process ends by itself
UiExits ==
  /\ ui_process = "running"
  /\ ui_process' = "exited"
  /\ UNCHANGED <<lpc, starts, ui_stop, docker, compose, docker_stopped,
                 image, sources, build_state, inspected, perform_build,
                 last_build, built_sources, retries, inspections, healthy,
                 warned, exit_via>>
  /\ UNCHANGED <<mode, single_vars, reqs, models, upload_folder,
                 transcription_file, summary_file>>

\* SIGINT, SIGTERM or SIGBREAK arrives: handle_exit starts, whatever the
\* launcher was doing (a handler that was running is interrupted too).
Signal ==
  /\ lpc \notin {"stopped", "exited", "handle_exit"}
  /\ lpc' = "handle_exit"
  /\ UNCHANGED <<starts, ui_process, ui_stop, docker, compose,
                 docker_stopped, image, sources, build_state, inspected,
                 perform_build, last_build, built_sources, retries,
                 inspections, healthy, warned, exit_via>>
  /\ UNCHANGED <<mode, single_vars, reqs, models, upload_folder,
                 transcription_file, summary_file>>

WaitOrKill_NoKill(exited_in_time) ==
  IF exited_in_time THEN "terminated" ELSE "none"

\* ui_process.wait(timeout=10) after terminate(): kill() on TimeoutExpired
WaitOrKill(exited_in_time) ==
  IF exited_in_time THEN "terminated" ELSE "killed"

\* handle_exit: the UI client, if it runs, is terminated and, if it does not
\* exit within the wait, killed.
TerminateUi ==
  /\ lpc = "handle_exit"
  /\ IF ui_process = "running"
     THEN \E exited_in_time \in BOOLEAN :
            /\ ui_stop' = WaitOrKill(exited_in_time)
            /\ ui_process' = IF ui_stop' \in {"terminated", "killed"}
                             THEN "exited" ELSE "running"
     ELSE UNCHANGED <<ui_process, ui_stop>>
  /\ lpc' = "stop_docker"
  /\ UNCHANGED <<starts, docker, compose, docker_stopped, image, sources,
                 build_state, inspected, perform_build, last_build,
                 built_sources, retries, inspections, healthy, warned,
                 exit_via>>
  /\ UNCHANGED <<mode, single_vars, reqs, models, upload_folder,
                 transcription_file, summary_file>>

\* handle_exit: "if docker: stop_docker_services()" (down_ok:
\* docker.compose.down succeeded; its exceptions are only logged).
stop_docker_services ==
  /\ lpc = "stop_docker"
  /\ IF docker # None
     THEN /\ \E down_ok \in BOOLEAN :
               compose' = IF down_ok THEN "down" ELSE compose
          /\ docker_stopped' = TRUE
     ELSE UNCHANGED <<compose, docker_stopped>>
  /\ lpc' = "sys_exit"
  /\ UNCHANGED <<starts, ui_process, ui_stop, docker, image, sources,
                 build_state, inspected, perform_build, last_build,
                 built_sources, retries, inspections, healthy, warned,
                 exit_via>>
  /\ UNCHANGED <<mode, single_vars, reqs, models, upload_folder,
                 transcription_file, summary_file>>

\* handle_exit: sys.exit(0)
SysExit ==
  /\ lpc = "sys_exit"
  /\ \E down_ok \in BOOLEAN : ProcessExit("handle_exit", down_ok)
  /\ UNCHANGED <<starts, ui_process, ui_stop, docker, docker_stopped, image,
                 sources, build_state, inspected, perform_build, last_build,
                 built_sources, retries, inspections, healthy, warned>>
  /\ UNCHANGED <<mode, single_vars, reqs, models, upload_folder,
                 transcription_file, summary_file>>

\* between two runs a watched source is edited
EditSources ==
  /\ lpc \in {"stopped", "exited"}
  /\ \E s \in SourceStates \ {sources} : sources' = s
  /\ UNCHANGED <<lpc, starts, ui_process, ui_stop, docker, compose,
                 docker_stopped, image, build_state, inspected,
                 perform_build, last_build, built_sources, retries,
                 inspections, healthy, warned, exit_via>>
  /\ UNCHANGED <<mode, single_vars, reqs, models, upload_folder,
                 transcription_file, summary_file>>

\* between two runs the image is removed
RemoveImage ==
  /\ lpc \in {"stopped", "exited"}
  /\ image
  /\ image' = FALSE
  /\ UNCHANGED <<lpc, starts, ui_process, ui_stop, docker, compose,
                 docker_stopped, sources, build_state, inspected,
                 perform_build, last_build, built_sources, retries,
                 inspections, healthy, warned, exit_via>>
  /\ UNCHANGED <<mode, single_vars, reqs, models, upload_folder,
                 transcription_file, summary_file>>

\* run.py has not been started; the image and the state file are those a
\* previous use of the project left
LauncherInit ==
  /\ mode = "split"
  /\ entry = "http"
  /\ pc = "diarize"
  /\ diarization = NoDiarization
  /\ audio_ms = NoAudio
  /\ segments = <<>>
  /\ boundaries = <<>>
  /\ failed_conversions = {}
  /\ asr_outcomes = <<>>
  /\ transcribed_results = <<>>
  /\ transcription = NoText
  /\ service_result = NoServiceResult
  /\ service_response = NoResponse
  /\ diarization_response = NoResponse
  /\ full_transcription_text = <<>>
  /\ llm_calls = <<>>
  /\ response = NoAnswer
  /\ transcription_file = PreviousTranscription
  /\ summary_file = PreviousSummary
  /\ reqs = NoRequests
  /\ ModelsReady
  /\ upload_folder = {}
  /\ lpc = "stopped"
  /\ starts = 0
  /\ ui_process = None
  /\ ui_stop = "none"
  /\ docker = None
  /\ compose = "down"
  /\ docker_stopped = FALSE
  /\ image \in BOOLEAN
  /\ sources \in SourceStates
  /\ build_state \in {NoBuildState} \cup SourceStates
  /\ inspected = "none"
  /\ perform_build = FALSE
  /\ last_build = "none"
  /\ built_sources = 0
  /\ retries = 0
  /\ inspections = 0
  /\ healthy = FALSE
  /\ warned = FALSE
  /\ exit_via = "none"

LauncherNext ==
  \/ StartUiClient
  \/ CheckUi
  \/ InitDocker
  \/ CheckImage
  \/ ComposeUp
  \/ SaveBuildState
  \/ InspectHealth
  \/ AfterWait
  \/ WaitUi
  \/ UiExits
  \/ Signal
  \/ TerminateUi
  \/ stop_docker_services
  \/ SysExit
  \/ EditSources
  \/ RemoveImage

LauncherSpec == LauncherInit /\ [][LauncherNext]_vars

\* ============================================================ properties
\* ------------------------------------------------- vocabulary of the claims
\* The merge has run for this request and its rendered transcript exists.
Merged ==
  \/ mode = "mono" /\ pc \in {"returned", "done"} /\ segments # <<>>
  \/ mode = "split" /\ pc = "done" /\ diarization_response.has_segments

\* The rendered transcript of the request.
Rendered ==
  IF mode = "mono" THEN transcription.value ELSE full_transcription_text

\* The units handed to the merge loop, in one shape: the text of a unit is
\* the text the loop takes from it (main.py strips it on reading).
UnitView(u) ==
  IF mode = "mono"
  THEN [speaker |-> u.speaker, text |-> strip(u.transcription),
        start |-> u.start, end |-> u.end]
  ELSE [speaker |-> u.speaker, text |-> u.text,
        start |-> u.start_time, end |-> u.end_time]

MergeInput ==
  IF mode = "mono" THEN transcribed_results
  ELSE diarization_response.transcribed_segments

Units == [i \in 1..Len(MergeInput) |-> UnitView(MergeInput[i])]

\* The merge loop of the deployment, as a function of its input.
Render(input) ==
  IF mode = "mono" THEN FormatTranscription(input)
  ELSE UiFormatTranscription(input)

MergeLoopState(input) ==
  IF mode = "mono" THEN MainMergeLoop(MergeStart, input)
  ELSE UiMergeLoop(MergeStart, input)

Tokens(text) == {text[i] : i \in 1..Len(text)}

IsErrorUnit(u) == u.speaker = ERROR
NotErrorUnit(u) == u.speaker # ERROR
IsBlankView(u) == strip(u.text) = <<>>
IsBlankUnit(u) == IsBlankView(UnitView(u))
NotBlankUnit(u) == ~IsBlankUnit(u)
IsKept(u) == u.speaker # ERROR /\ u.text # <<>>

Kept == SelectSeq(Units, IsKept)

\* Maximal runs of equal speaker in a sequence k of kept units.
StartsRun(k, i) == i = 1 \/ k[i].speaker # k[i - 1].speaker

RunEnd(k, i) ==
  CHOOSE j \in i..Len(k) :
    /\ \A m \in (i + 1)..j : ~StartsRun(k, m)
    /\ j = Len(k) \/ StartsRun(k, j + 1)

RECURSIVE JoinTexts(_, _, _)
JoinTexts(k, i, j) ==
  IF i = j THEN k[i].text ELSE k[i].text \o <<" ">> \o JoinTexts(k, i + 1, j)

RECURSIVE UtterancesFrom(_, _)
UtterancesFrom(k, i) ==
  IF i > Len(k) THEN <<>>
  ELSE LET j == RunEnd(k, i)
       IN <<[speaker |-> k[i].speaker, text |-> JoinTexts(k, i, j),
             start |-> k[i].start, end |-> k[j].end,
             first |-> i, last |-> j]>> \o UtterancesFrom(k, j + 1)

Utterances == UtterancesFrom(Kept, 1)

\* The lines of a rendered text (split at the newlines).
RECURSIVE SplitLines(_, _)
SplitLines(text, line) ==
  IF text = <<>> THEN <<line>>
  ELSE IF Head(text) = "\n" THEN <<line>> \o SplitLines(Tail(text), <<>>)
  ELSE SplitLines(Tail(text), Append(line, Head(text)))

Lines == IF Rendered = <<>> THEN <<>> ELSE SplitLines(Rendered, <<>>)

LineOf(u) == <<u.speaker, ":", " ">> \o strip(u.text)

RECURSIVE JoinLines(_)
JoinLines(us) ==
  IF us = <<>> THEN <<>>
  ELSE IF Len(us) = 1 THEN LineOf(us[1])
  ELSE LineOf(us[1]) \o <<"\n">> \o JoinLines(Tail(us))

SpeakersAndTexts == [i \in 1..Len(Units) |-> <<Units[i].speaker, Units[i].text>>]

\* ----------------------------------------------------------------- C1
\* C1: a unit whose speaker is "ERROR" contributes no text to the rendered
\* transcript and causes no utterance split: the rendered text equals the
\* rendering of the same unit sequence with the ERROR units removed, and
\* [A:"hi", ERROR:.., A:"there"] renders as the single line "A: hi there".
C1_ErrorExcluded ==
  Merged =>
    LET rendered == Rendered
    IN /\ rendered = Render(SelectSeq(MergeInput, NotErrorUnit))
       /\ ERROR \notin Tokens(rendered)
       /\ "Error]" \notin Tokens(rendered)
       /\ \A sp \in Speakers :
            SpeakersAndTexts = <<<<sp, <<"hi">>>>,
                                 <<ERROR, TranscriptionErrorText>>,
                                 <<sp, <<"there">>>>>>
              => rendered = <<sp, ":", " ", "hi", " ", "there">>

C1_Witness ==
  /\ Merged
  /\ SpeakersAndTexts = <<<<"SPEAKER_0", <<"hi">>>>,
                          <<ERROR, TranscriptionErrorText>>,
                          <<"SPEAKER_0", <<"there">>>>>>
  /\ Rendered = <<"SPEAKER_0", ":", " ", "hi", " ", "there">>

\* ----------------------------------------------------------------- C2
\* C2: the merge emits one line per maximal run of consecutive kept units
\* with the same speaker: the lines are, in order, the runs' speakers with
\* the space-joined texts of the runs' units, no two adjacent lines carry the
\* same speaker, and no kept unit's text is lost (the last run included).
C2_OneLinePerRun ==
  Merged =>
    LET lines == Lines
        utterances == Utterances
        kept == Kept
    IN /\ Len(lines) = Len(utterances)
       /\ \A i \in 1..Len(lines) :
            lines[i] = <<utterances[i].speaker, ":", " ">> \o utterances[i].text
       /\ \A i \in 1..(Len(lines) - 1) : lines[i][1] # lines[i + 1][1]
       /\ \A i \in 1..Len(kept) :
            \E n \in 1..Len(utterances) :
              utterances[n].first <= i /\ i <= utterances[n].last

C2_Witness ==
  /\ Merged
  /\ Len(Kept) = 3
  /\ Len(Utterances) = 2
  /\ Utterances[2].first = 2
  /\ Len(Lines) = 2

\* ----------------------------------------------------------------- C3
AllSameSpeaker ==
  \A i \in 1..Len(MergeInput) : MergeInput[i].speaker = MergeInput[1].speaker

\* C3 as stated: if all units given to the merge have the same speaker, the
\* output is exactly one utterance whose text is the space-joined
\* concatenation of all unit texts in input order.
C3_Original ==
  (Merged /\ AllSameSpeaker) =>
    LET units == Units
    IN /\ Len(units) > 0
       /\ Rendered = <<units[1].speaker, ":", " ">>
                       \o JoinTexts(units, 1, Len(units))

\* C3 amended: if all units have the same speaker, that speaker is not the
\* ERROR sentinel and at least one unit has a non-empty text, the output is
\* exactly one utterance whose text is the space-joined concatenation of the
\* non-empty unit texts in input order.
C3_UniformSpeaker ==
  (Merged /\ AllSameSpeaker) =>
    LET kept == Kept
    IN Len(kept) > 0 =>
         /\ Len(Lines) = 1
         /\ Rendered = <<kept[1].speaker, ":", " ">>
                         \o JoinTexts(kept, 1, Len(kept))

C3_Witness ==
  /\ Merged
  /\ AllSameSpeaker
  /\ Len(Units) = 3
  /\ Len(Kept) = 2
  /\ Units[2].text = <<>>
  /\ Len(Lines) = 1

\* ----------------------------------------------------------------- C4
\* The (speaker, word) pairs of a sequence of [speaker, text] records, in
\* order.
RECURSIVE WordsOf(_, _)
WordsOf(speaker, text) ==
  IF text = <<>> THEN <<>>
  ELSE IF Head(text) \in Whitespace THEN WordsOf(speaker, Tail(text))
  ELSE <<<<speaker, Head(text)>>>> \o WordsOf(speaker, Tail(text))

RECURSIVE SpokenWords(_)
SpokenWords(us) ==
  IF us = <<>> THEN <<>>
  ELSE WordsOf(Head(us).speaker, Head(us).text) \o SpokenWords(Tail(us))

LineRecords(lines) ==
  [i \in 1..Len(lines) |->
     [speaker |-> lines[i][1], text |-> SubSeq(lines[i], 4, Len(lines[i]))]]

SortedByStartTime ==
  \A i \in 1..(Len(MergeInput) - 1) :
    UnitView(MergeInput[i]).start <= UnitView(MergeInput[i + 1]).start

\* C4: the merge never reorders: for units sorted by start time the output
\* lines are in the order of the units they were built from (the words of
\* the output, with their speakers, are the words of the kept units in input
\* order), the start times of the utterances are non-decreasing, and the
\* utterances cover exactly the kept units, each once.
C4_OrderPreserved ==
  (Merged /\ SortedByStartTime) =>
    LET lines == Lines
        utterances == Utterances
        kept == Kept
    IN /\ SpokenWords(LineRecords(lines)) = SpokenWords(kept)
       /\ Len(lines) = Len(utterances)
       /\ \A n \in 1..Len(lines) : lines[n][1] = utterances[n].speaker
       /\ \A n \in 1..(Len(utterances) - 1) :
            /\ utterances[n].start <= utterances[n + 1].start
            /\ utterances[n].last + 1 = utterances[n + 1].first
       /\ Len(utterances) > 0 =>
            /\ utterances[1].first = 1
            /\ utterances[Len(utterances)].last = Len(kept)

\* two speakers alternate: B, A, B stays three lines in that order
C4_Witness ==
  /\ Merged
  /\ SortedByStartTime
  /\ Len(Lines) = 3
  /\ Lines[1][1] = "SPEAKER_1"
  /\ Lines[2][1] = "SPEAKER_0"
  /\ Lines[3][1] = "SPEAKER_1"
  /\ Utterances[1].start < Utterances[3].start

\* ----------------------------------------------------------------- C5
ExampleUtterances ==
  <<[speaker |-> "SPEAKER_0", text |-> <<"hello", " ", "there">>],
    [speaker |-> "SPEAKER_1", text |-> <<"hi">>]>>

ExampleRendered ==
  <<"SPEAKER_0", ":", " ", "hello", " ", "there", "\n",
    "SPEAKER_1", ":", " ", "hi">>

ExampleMainUnits ==
  [i \in 1..2 |-> [speaker |-> ExampleUtterances[i].speaker,
                   transcription |-> ExampleUtterances[i].text,
                   start |-> 2 * i - 2, end |-> 2 * i]]

ExampleServiceUnits ==
  [i \in 1..2 |-> [speaker |-> ExampleUtterances[i].speaker,
                   text |-> ExampleUtterances[i].text,
                   start_time |-> 2 * i - 2, end_time |-> 2 * i]]

\* C5: the rendered transcript is one line "{speaker}: {trimmed text}" per
\* utterance, joined by single newlines, with no leading or trailing newline
\* and no blank line; (SPEAKER_0, "hello there"), (SPEAKER_1, "hi") render as
\* "SPEAKER_0: hello there\nSPEAKER_1: hi".
C5_RenderFormat ==
  /\ FormatTranscription(ExampleMainUnits) = ExampleRendered
  /\ UiFormatTranscription(ExampleServiceUnits) = ExampleRendered
  /\ Merged =>
       LET rendered == Rendered
           lines == Lines
       IN /\ rendered = JoinLines(Utterances)
          /\ rendered # <<>> =>
               Head(rendered) # "\n" /\ rendered[Len(rendered)] # "\n"
          /\ \A i \in 1..(Len(rendered) - 1) :
               ~(rendered[i] = "\n" /\ rendered[i + 1] = "\n")
          /\ \A i \in 1..Len(lines) :
               /\ Len(lines[i]) >= 4
               /\ lines[i][2] = ":" /\ lines[i][3] = " "
               /\ lines[i][4] \notin Whitespace
               /\ lines[i][Len(lines[i])] \notin Whitespace

C5_Witness ==
  /\ Merged
  /\ Len(asr_outcomes) = 2
  /\ asr_outcomes[2].result = <<" ", "there", " ">>
  /\ Rendered = <<"SPEAKER_0", ":", " ", "hi", "\n",
                  "SPEAKER_1", ":", " ", "there">>

\* ----------------------------------------------------------------- C6
\* C6: a unit whose text is empty or only whitespace is skipped without
\* affecting the running speaker state: the loop state (output so far,
\* current speaker, current utterance) after such a unit is the state before
\* it, and the rendered text is that of the sequence without these units.
C6_BlankSkipped ==
  Merged =>
    LET input == MergeInput
    IN /\ \A i \in 1..Len(input) :
            IsBlankUnit(input[i]) =>
              MergeLoopState(SubSeq(input, 1, i))
                = MergeLoopState(SubSeq(input, 1, i - 1))
       /\ Rendered = Render(SelectSeq(input, NotBlankUnit))
       /\ \A i \in 1..Len(asr_outcomes) :
            (~asr_outcomes[i].raised /\ strip(asr_outcomes[i].result) = <<>>)
              => IsBlankUnit(input[i])

\* same speaker on both sides of a whitespace-only unit: one line
C6_Witness ==
  /\ Merged
  /\ Len(asr_outcomes) = 3
  /\ ~asr_outcomes[2].raised /\ asr_outcomes[2].result = <<" ">>
  /\ Len(Kept) = 2
  /\ Len(Lines) = 1

\* ----------------------------------------------------------------- C7
\* Diarization returned an annotation without turns, the waveform was loaded
\* and the segmentation has run.
NoSpeech ==
  /\ ~diarization.is_none
  /\ diarization.turns = {}
  /\ audio_ms # NoAudio
  /\ pc \notin {"diarize", "load_audio", "segment"}

\* C7: when diarization succeeds but yields no turns, so that segmentation
\* yields no segments, the pipeline reports success with an empty result:
\* diarize_and_transcribe returns "", diarize_and_transcribe_audio_segments
\* returns ([], None), and the request is answered as a success.
C7_NoSpeechSuccess ==
  NoSpeech =>
    /\ segments = <<>>
    /\ transcribed_results = <<>>
    /\ mode = "mono" =>
         /\ transcription = SomeText(<<>>)
         /\ pc = "done" => response.status = 200 /\ response.error = None
    /\ mode = "split" =>
         /\ service_result = [is_none |-> FALSE, transcribed_segments |-> <<>>,
                              error_message |-> None]
         /\ pc \in {"service_responded", "client_returned", "done"} =>
              /\ service_response.status = 200
              /\ service_response.has_segments
              /\ service_response.transcribed_segments = <<>>
         /\ (pc = "done" /\ diarization_response.has_segments) =>
              response.status = 200 /\ response.error = None

C7_Witness ==
  /\ NoSpeech
  /\ mode = "split"
  /\ pc = "done"
  /\ service_response.status = 200
  /\ response.status = 200

\* ----------------------------------------------------------------- C8
DiarizationFailed == diarization.is_none /\ pc # "diarize"

\* C8: if the diarizer returns no result at all, the request ends in an error
\* that differs from the empty-transcript success of the no-speech case (None
\* instead of "", an error message instead of a list, an error answer instead
\* of a success): no segment is transcribed, no transcript text is produced
\* and the summarizer is not called.
C8_DiarizationFailure ==
  DiarizationFailed =>
    /\ segments = <<>>
    /\ asr_outcomes = <<>>
    /\ transcribed_results = <<>>
    /\ llm_calls = <<>>
    /\ full_transcription_text = <<>>
    /\ transcription_file \in {PreviousTranscription, <<>>}
    /\ summary_file = PreviousSummary
    /\ mode = "mono" => transcription.is_none /\ transcription # SomeText(<<>>)
    /\ mode = "split" =>
         /\ service_result.is_none
         /\ service_result.error_message # None
         /\ pc \in {"service_responded", "client_returned", "done"} =>
              service_response.status = 500 /\ ~service_response.has_segments
         /\ pc \in {"client_returned", "done"} =>
              ~diarization_response.has_segments
    /\ pc = "done" =>
         /\ response.status = 500
         /\ response.error # None
         /\ response.summary = <<>>

C8_Witness ==
  /\ DiarizationFailed
  /\ pc = "done"
  /\ mode = "split"
  /\ response.status = 500
  /\ service_response.error = "Diarization failed"

\* ----------------------------------------------------------------- C9
SomeUnitTranscribed ==
  \E i \in 1..Len(MergeInput) : MergeInput[i].speaker # ERROR

SomeUnitKept ==
  \E i \in 1..Len(MergeInput) :
    MergeInput[i].speaker # ERROR /\ ~IsBlankUnit(MergeInput[i])

\* C9 as stated: if at least one unit of a request was transcribed without
\* failure (its speaker is not "ERROR"), the rendered transcript of that
\* request is not empty.
C9_Original ==
  (Merged /\ SomeUnitTranscribed) => Rendered # <<>>

\* C9 amended: if at least one unit of a request was transcribed without
\* failure and its recognized text is not blank, the rendered transcript of
\* that request is not empty, whatever happened to the other units.
C9_PartialFailure ==
  (Merged /\ SomeUnitKept) =>
    LET rendered == Rendered
        input == MergeInput
    IN /\ rendered # <<>>
       /\ \A i \in 1..Len(input) :
            (input[i].speaker # ERROR /\ ~IsBlankUnit(input[i])) =>
              /\ input[i].speaker \in Tokens(rendered)
              /\ \A w \in Tokens(UnitView(input[i]).text) \ Whitespace :
                   w \in Tokens(rendered)

\* two of three units failed, the third is rendered
C9_Witness ==
  /\ Merged
  /\ Len(asr_outcomes) = 3
  /\ asr_outcomes[1].raised
  /\ asr_outcomes[3].raised
  /\ SomeUnitKept
  /\ Len(Lines) = 1

\* ---------------------------------------------------------------- C10
\* C10 as stated: the transcription loop produces exactly one unit per audio
\* segment, in segment order; a segment whose transcription raises yields one
\* unit with speaker "ERROR" carrying that segment's boundaries, the failure
\* does not abort the request and every later segment is still transcribed.
C10_Original ==
  /\ Len(transcribed_results) = Len(asr_outcomes)
  /\ Len(transcribed_results) <= Len(segments)
  /\ pc # "transcribe" => Len(transcribed_results) = Len(segments)
  /\ (pc = "transcribe" /\ Len(transcribed_results) < Len(segments)) =>
       ENABLED TranscribeSegment
  /\ \A i \in 1..Len(transcribed_results) :
       LET u == UnitView(transcribed_results[i])
       IN /\ asr_outcomes[i].raised =>
               /\ u.speaker = ERROR
               /\ u.start = boundaries[i][1]
               /\ u.end = boundaries[i][2]
          /\ ~asr_outcomes[i].raised =>
               /\ u.speaker # ERROR
               /\ u.text = strip(asr_outcomes[i].result)

\* the boundaries a unit of the deployment carries for a segment
CarriedBoundary(boundary) ==
  IF mode = "mono" THEN boundary
  ELSE <<round3(boundary[1]), round3(boundary[2])>>

\* C10 amended: as stated, except that the unit carries the segment's
\* boundaries exactly in diarize_and_transcribe and rounded to three decimals
\* (whole milliseconds) in diarize_and_transcribe_audio_segments.
C10_OneUnitPerSegment ==
  /\ Len(transcribed_results) = Len(asr_outcomes)
  /\ Len(transcribed_results) <= Len(segments)
  /\ pc # "transcribe" => Len(transcribed_results) = Len(segments)
  /\ (pc = "transcribe" /\ Len(transcribed_results) < Len(segments)) =>
       ENABLED TranscribeSegment
  /\ \A i \in 1..Len(transcribed_results) :
       LET u == UnitView(transcribed_results[i])
       IN /\ <<u.start, u.end>> = CarriedBoundary(boundaries[i])
          /\ asr_outcomes[i].raised => u.speaker = ERROR
          /\ ~asr_outcomes[i].raised =>
               /\ u.speaker # ERROR
               /\ u.text = strip(asr_outcomes[i].result)

\* the first segment failed, the third was still transcribed
C10_Witness ==
  /\ pc = "done"
  /\ Len(segments) = 3
  /\ Len(transcribed_results) = 3
  /\ asr_outcomes[1].raised
  /\ UnitView(transcribed_results[1]).speaker = ERROR
  /\ ~asr_outcomes[3].raised
  /\ UnitView(transcribed_results[3]).text = <<"hi">>

\* ---------------------------------------------------------------- C11
\* the speaker lookup of unit i raised (its transcription did not)
LookupFailed(i) == ~asr_outcomes[i].raised /\ asr_outcomes[i].lookup_raises

\* the request was not aborted by an exception of the transcription loop
LoopNotAborted ==
  /\ (mode = "mono" /\ pc \in {"returned", "done"}) => ~transcription.is_none
  /\ (mode = "split" /\ pc \notin {"transcribe"}) =>
       ~service_result.is_none /\ service_result.error_message = None
  /\ (mode = "split"
        /\ pc \in {"service_responded", "client_returned", "done"}) =>
       service_response.status = 200

\* the words of unit i stand in a line of the rendered transcript that
\* carries speaker sp
RenderedUnder(i, sp) ==
  LET words == Tokens(UnitView(transcribed_results[i]).text) \ Whitespace
  IN words = {} \/ \E n \in 1..Len(Lines) :
                     /\ Lines[n][1] = sp
                     /\ words \subseteq Tokens(Lines[n])

\* C11: a failure of the speaker lookup for a successfully transcribed unit
\* does not abort the request and does not propagate: the unit keeps its
\* recognized text, is labelled "UNKNOWN" (not "ERROR"), the remaining
\* segments are still processed, and the unit's text stands in the rendered
\* transcript under "UNKNOWN".
C11_LookupFailureAbsorbed ==
  (\E i \in 1..Len(asr_outcomes) : LookupFailed(i)) =>
    /\ Len(transcribed_results) = Len(asr_outcomes)
    /\ pc # "transcribe" => Len(transcribed_results) = Len(segments)
    /\ (pc = "transcribe" /\ Len(transcribed_results) < Len(segments)) =>
         ENABLED TranscribeSegment
    /\ LoopNotAborted
    /\ \A i \in 1..Len(asr_outcomes) :
         LookupFailed(i) =>
           LET u == UnitView(transcribed_results[i])
           IN /\ u.speaker = UNKNOWN
              /\ u.text = strip(asr_outcomes[i].result)
              /\ Merged => RenderedUnder(i, UNKNOWN)

\* the lookup of the first of two units raised, the second was transcribed
\* and attributed, and the first stands in the transcript under "UNKNOWN"
C11_Witness ==
  /\ Merged
  /\ Len(asr_outcomes) = 2
  /\ LookupFailed(1)
  /\ asr_outcomes[1].result = <<"hi">>
  /\ ~asr_outcomes[2].raised
  /\ ~asr_outcomes[2].lookup_raises
  /\ asr_outcomes[2].result = <<" ", "there", " ">>
  /\ transcribed_results[2].speaker = "SPEAKER_1"
  /\ Lines = <<<<UNKNOWN, ":", " ", "hi">>,
               <<"SPEAKER_1", ":", " ", "there">>>>

\* ---------------------------------------------------------------- C12
\* C12 as stated: whenever a unit of a request failed transcription
\* (speaker "ERROR") or speaker attribution (speaker "UNKNOWN"), the rendered
\* transcript of that request contains the "ERROR" or "UNKNOWN" marker of
\* that unit.
C12_Original ==
  Merged =>
    LET marks == Tokens(Rendered)
    IN \A i \in 1..Len(transcribed_results) :
         /\ transcribed_results[i].speaker = ERROR => ERROR \in marks
         /\ transcribed_results[i].speaker = UNKNOWN => UNKNOWN \in marks

\* C12, the failing request: the transcription of the first of two segments
\* raised, the request is answered with success, and its transcript holds
\* the second unit only, with no marker of the first.
C12_Witness ==
  /\ Merged
  /\ pc = "done"
  /\ response.status = 200
  /\ Len(asr_outcomes) = 2
  /\ asr_outcomes[1].raised
  /\ transcribed_results[1].speaker = ERROR
  /\ Rendered = <<"SPEAKER_0", ":", " ", "hi">>
  /\ llm_calls = <<Rendered>>

\* ---------------------------------------------------------------- C13
\* overlap_duration of a turn with the span [start, end]
OverlapDuration(u, start, end) ==
  Max(0, Min(u.end, end) - Max(u.start, start))

RECURSIVE SumOverlaps(_, _, _)
SumOverlaps(turns, start, end) ==
  IF turns = {} THEN 0
  ELSE LET u == CHOOSE v \in turns : TRUE
       IN OverlapDuration(u, start, end)
            + SumOverlaps(turns \ {u}, start, end)

\* total overlap of the turns of speaker sp with the span
SpeakerOverlap(turns, sp, start, end) ==
  SumOverlaps({u \in turns : u.speaker = sp}, start, end)

\* the first turn of speaker sp that overlaps the span, as a position in the
\* stored turn order (by start, then end, then label)
LabelIndex(sp) == CHOOSE i \in 1..Len(SpeakerLabels) : SpeakerLabels[i] = sp

TurnBefore(u, v) ==
  \/ u.start < v.start
  \/ u.start = v.start /\ u.end < v.end
  \/ u.start = v.start /\ u.end = v.end
       /\ LabelIndex(u.speaker) <= LabelIndex(v.speaker)

FirstTurnOf(turns, sp, start, end) ==
  CHOOSE u \in turns :
    /\ u.speaker = sp
    /\ OverlapDuration(u, start, end) > 0
    /\ \A v \in turns :
         (v.speaker = sp /\ OverlapDuration(v, start, end) > 0)
           => TurnBefore(u, v)

\* the speaker with the largest total overlap with the span; among equal
\* overlaps the one whose first overlapping turn is first in turn order
LargestOverlapSpeaker(turns, start, end) ==
  LET cands == {sp \in Speakers : SpeakerOverlap(turns, sp, start, end) > 0}
  IN CHOOSE sp \in cands :
       \A other \in cands \ {sp} :
         \/ SpeakerOverlap(turns, sp, start, end)
              > SpeakerOverlap(turns, other, start, end)
         \/ /\ SpeakerOverlap(turns, sp, start, end)
                 = SpeakerOverlap(turns, other, start, end)
            /\ TurnBefore(FirstTurnOf(turns, sp, start, end),
                          FirstTurnOf(turns, other, start, end))

\* the speakers whose turns overlap the span of unit i
SpeakersOver(i) ==
  {sp \in Speakers :
     SpeakerOverlap(diarization.turns, sp,
                    boundaries[i][1], boundaries[i][2]) > 0}

\* unit i was transcribed and its speaker lookup did not raise
Attributed(i) == ~asr_outcomes[i].raised /\ ~asr_outcomes[i].lookup_raises

\* C13 as stated: when turns of several speakers overlap a unit's span, the
\* unit is attributed to the speaker whose turns have the largest total
\* overlap with the span (equal overlaps: the first in stored turn order).
C13_Original ==
  \A i \in 1..Len(transcribed_results) :
    (Attributed(i) /\ Cardinality(SpeakersOver(i)) > 1) =>
      transcribed_results[i].speaker
        = LargestOverlapSpeaker(diarization.turns,
                                boundaries[i][1], boundaries[i][2])

\* C13, the failing request: the unit spans [0, 4] ticks, SPEAKER_0 speaks
\* for one tick of it and SPEAKER_1 for three, and the unit is attributed to
\* SPEAKER_0 and rendered under that label.
C13_Witness ==
  /\ Merged
  /\ diarization.turns = {[start |-> 0, end |-> 1, speaker |-> "SPEAKER_0"],
                          [start |-> 1, end |-> 4, speaker |-> "SPEAKER_1"]}
  /\ boundaries = <<<<0, 4>>>>
  /\ Attributed(1)
  /\ asr_outcomes[1].result = <<"hi">>
  /\ SpeakerOverlap(diarization.turns, "SPEAKER_1", 0, 4) = 3
  /\ SpeakerOverlap(diarization.turns, "SPEAKER_0", 0, 4) = 1
  /\ transcribed_results[1].speaker = "SPEAKER_0"
  /\ Rendered = <<"SPEAKER_0", ":", " ", "hi">>

\* ---------------------------------------------------------------- C14
\* the unknown-speaker sentinel, under the name of the spec's example or
\* under the name the code uses
UnknownSentinels == {"SPEAKER_UNKNOWN", UNKNOWN}

\* the turns overlap less than half of the span of unit i (or not at all)
MinorityOverlap(i) ==
  2 * SumOverlaps(diarization.turns, boundaries[i][1], boundaries[i][2])
    < boundaries[i][2] - boundaries[i][1]

C15_TwoStepLookup ==
  \A i \in 1..Len(transcribed_results) :
    Attributed(i) =>
      LET over == SpeakersOver(i)
          speaker == transcribed_results[i].speaker
      IN /\ over # {} => speaker \in over
         /\ over = {} => speaker = UNKNOWN
         /\ speaker = UNKNOWN => over = {}
         /\ speaker # ERROR

\* SPEAKER_1 speaks over the unit's span, SPEAKER_0 only after it: the unit
\* is attributed to SPEAKER_1
C15_Witness ==
  /\ diarization.turns = {[start |-> 0, end |-> 2, speaker |-> "SPEAKER_1"],
                          [start |-> 3, end |-> 4, speaker |-> "SPEAKER_0"]}
  /\ boundaries = <<<<0, 2>>>>
  /\ Len(transcribed_results) = 1
  /\ Attributed(1)
  /\ SpeakersOver(1) = {"SPEAKER_1"}
  /\ transcribed_results[1].speaker = "SPEAKER_1"

\* ---------------------------------------------------------------- C17
\* segment_audio_from_diarization has run for this request
Segmented ==
  /\ pc \notin {"diarize", "load_audio", "segment"}
  /\ ~diarization.is_none
  /\ audio_ms # NoAudio

AudioDuration == audio_ms * TicksPerMs

\* a covered interval clipped to the audio bounds [0, duration]
Clip(s) == <<Max(0, s[1]), Min(AudioDuration, s[2])>>

CoveredIntervals == SupportSet(diarization.turns)

\* C17: segment_audio_from_diarization returns two lists of equal length,
\* slice i being the audio of boundary i; every boundary satisfies
\* 0 <= start < end <= audio duration; the boundaries are in increasing start
\* order and pairwise non-overlapping, each the clip of its own maximal
\* contiguous covered interval; an interval whose clipped length is zero or
\* negative produces no entry.
C17_SegmentationShape ==
  Segmented =>
    LET covered == CoveredIntervals
    IN /\ Len(segments) = Len(boundaries)
       /\ Len(boundaries) <= Cardinality(covered)
       /\ \A i \in 1..Len(boundaries) :
            /\ segments[i] = <<IntMs(boundaries[i][1]), IntMs(boundaries[i][2])>>
            /\ 0 <= boundaries[i][1]
            /\ boundaries[i][1] < boundaries[i][2]
            /\ boundaries[i][2] <= AudioDuration
            /\ \E s \in covered : boundaries[i] = Clip(s)
       /\ \A i \in 1..Len(boundaries) : \A j \in (i + 1)..Len(boundaries) :
            /\ boundaries[i][1] < boundaries[j][1]
            /\ boundaries[i][2] <= boundaries[j][1]
       /\ \A s \in covered :
            Clip(s)[1] >= Clip(s)[2] =>
              \A i \in 1..Len(boundaries) :
                ~(s[1] <= boundaries[i][1] /\ boundaries[i][2] <= s[2])

\* audio of 1 ms, covered intervals [0, 2] and [3, 4] ticks: the first is
\* emitted, the second lies past the end of the audio and is dropped
C17_Witness ==
  /\ Segmented
  /\ audio_ms = 1
  /\ CoveredIntervals = {<<0, 2>>, <<3, 4>>}
  /\ Clip(<<3, 4>>) = <<3, 2>>
  /\ failed_conversions = {}
  /\ boundaries = <<<<0, 2>>>>
  /\ segments = <<<<0, 1>>>>

\* ---------------------------------------------------------------- C18
\* the interval reaches the tensor conversion: its clip is not empty and
\* neither is its audio chunk
Convertible(s) ==
  /\ Clip(s)[1] < Clip(s)[2]
  /\ IntMs(Clip(s)[1]) < IntMs(Clip(s)[2])

ConversionFailed == {s \in failed_conversions : Convertible(s)}

\* C18: if converting one covered interval to the transcriber's tensor
\* format fails, neither a slice nor a boundary is emitted for it, the
\* remaining intervals are still emitted in order and transcribed, and the
\* request does not fail because of it.
C18_ConversionFailureSkipped ==
  (Segmented /\ ConversionFailed # {}) =>
    LET covered == CoveredIntervals
        emitted == {s \in covered : Convertible(s)} \ ConversionFailed
    IN /\ \A s \in ConversionFailed :
            \A i \in 1..Len(boundaries) :
              ~(s[1] <= boundaries[i][1] /\ boundaries[i][2] <= s[2])
       /\ Len(segments) = Len(boundaries)
       /\ Len(boundaries) = Cardinality(emitted)
       /\ \A s \in emitted :
            \E i \in 1..Len(boundaries) :
              /\ boundaries[i] = Clip(s)
              /\ segments[i] = <<IntMs(Clip(s)[1]), IntMs(Clip(s)[2])>>
       /\ \A i \in 1..Len(boundaries) : \A j \in (i + 1)..Len(boundaries) :
            boundaries[i][1] < boundaries[j][1]
       /\ (pc = "transcribe" /\ Len(transcribed_results) < Len(segments)) =>
            ENABLED TranscribeSegment
       /\ pc # "transcribe" => Len(transcribed_results) = Len(segments)
       /\ LoopNotAborted

\* the conversion of the first of two intervals failed; the second was
\* emitted, transcribed and rendered, and the request succeeded
C18_Witness ==
  /\ Segmented
  /\ pc = "done"
  /\ CoveredIntervals = {<<0, 2>>, <<3, 4>>}
  /\ ConversionFailed = {<<0, 2>>}
  /\ boundaries = <<<<3, 4>>>>
  /\ Len(transcribed_results) = 1
  /\ asr_outcomes[1].result = <<"hi">>
  /\ Attributed(1)
  /\ Len(Lines) = 1
  /\ response.status = 200

\* ---------------------------------------------------------------- C19
\* the pipeline function failed for this request (no transcript exists)
TranscriptionFailed ==
  \/ mode = "mono" /\ pc \in {"returned", "done"} /\ transcription.is_none
  \/ mode = "split" /\ pc \in {"client_returned", "done"}
       /\ ~diarization_response.has_segments

\* C19: in every request the summarizer is called at most once, only after
\* the transcript has been completely rendered, and it is handed exactly the
\* rendered newline-joined "speaker: text" transcript of that request; it is
\* never called when the rendered transcript is empty or when transcription
\* failed.
C19_SummarizerInput ==
  /\ Len(llm_calls) <= 1
  /\ llm_calls # <<>> =>
       /\ pc = "done"
       /\ ~TranscriptionFailed
       /\ llm_calls[1] # <<>>
       /\ llm_calls[1] = Rendered
       /\ Merged /\ llm_calls[1] = JoinLines(Utterances)
       /\ Len(transcribed_results) = Len(segments)
  /\ (pc = "done" /\ (TranscriptionFailed \/ Rendered = <<>>)) =>
       llm_calls = <<>>

\* the command line run handed the two-line transcript to the summarizer
C19_Witness ==
  /\ pc = "done"
  /\ entry = "cli"
  /\ Len(Lines) = 2
  /\ llm_calls = <<Rendered>>
  /\ Rendered = <<"SPEAKER_0", ":", " ", "hi", "\n",
                  "SPEAKER_1", ":", " ", "there">>

\* ---------------------------------------------------------------- C20
\* the transcript request r gets when it runs alone: the pipeline function
\* of its deployment applied to its own audio
SoloTranscript(r) ==
  IF mode = "mono" THEN diarize_and_transcribe(reqs[r].audio)
  ELSE LET answer == process_audio_file(reqs[r].audio, reqs[r].delivered)
       IN IF answer.has_segments /\ ~ModelsMissing /\ reqs[r].service_saved
          THEN SomeText(UiFormatTranscription(answer.transcribed_segments))
          ELSE NoText

\* status and summary of the answer request r gets when it runs alone
SoloAnswer(r) ==
  LET transcript == SoloTranscript(r)
  IN IF mode = "mono" /\ ModelsMissing
     THEN [status |-> 503, summary |-> <<>>]
     ELSE IF reqs[r].upload # "ok" THEN [status |-> 400, summary |-> <<>>]
     ELSE IF ~reqs[r].saved \/ transcript.is_none
     THEN [status |-> 500, summary |-> <<>>]
     ELSE IF transcript.value = <<>>
     THEN [status |-> 200,
           summary |-> IF mode = "mono" THEN <<>> ELSE NoContentSummary]
     ELSE IF reqs[r].llm_ok
     THEN [status |-> 200, summary |-> SummaryOf(transcript.value)]
     ELSE [status |-> 500, summary |-> <<>>]

\* C20: concurrent requests do not influence each other's results: in every
\* interleaving of the handlers, the transcript a request holds and the
\* summary returned in its response are those computed from its own audio,
\* equal to what the same request returns when it runs alone.
C20_RequestsIsolated ==
  \A r \in DOMAIN reqs :
    /\ (reqs[r].pc \in {"saved", "summarized"}
          \/ (reqs[r].pc = "done" /\ reqs[r].response.status = 200)) =>
         /\ ~SoloTranscript(r).is_none
         /\ mode = "mono" => reqs[r].transcription = SoloTranscript(r)
         /\ (mode = "split"
               /\ reqs[r].diarization_response.has_segments) =>
              reqs[r].transcription = SoloTranscript(r)
    /\ reqs[r].pc = "summarized" =>
         reqs[r].summary.value = SoloAnswer(r).summary
    /\ reqs[r].pc = "done" =>
         /\ reqs[r].response.status = SoloAnswer(r).status
         /\ reqs[r].response.summary = SoloAnswer(r).summary

\* two requests with different audios ran interleaved (the transcript file
\* holds the text of request 1 and the summary file the summary of request
\* 2) and each was answered with the summary of its own transcript
C20_Witness ==
  /\ reqs # NoRequests
  /\ \A r \in {1, 2} : reqs[r].pc = "done" /\ reqs[r].response.status = 200
  /\ reqs[1].transcription.value = <<"SPEAKER_0", ":", " ", "hi">>
  /\ reqs[2].transcription.value = <<"SPEAKER_0", ":", " ", "hi", "\n",
                                     "SPEAKER_1", ":", " ", "there">>
  /\ reqs[1].response.summary = SummaryOf(reqs[1].transcription.value)
  /\ reqs[2].response.summary = SummaryOf(reqs[2].transcription.value)
  /\ transcription_file = reqs[1].transcription.value
  /\ summary_file = reqs[2].response.summary

\* ---------------------------------------------------------------- C21
\* every concurrent request has been answered
AllAnswered ==
  /\ reqs # NoRequests
  /\ \A r \in DOMAIN reqs : reqs[r].pc = "done"

\* the complete transcripts / summaries the requests produced
ProducedTranscripts ==
  {reqs[r].transcription.value :
     r \in {q \in DOMAIN reqs : ~reqs[q].transcription.is_none}}

ProducedSummaries ==
  {reqs[r].summary.value :
     r \in {q \in DOMAIN reqs : ~reqs[q].summary.is_none}}

\* C21 as stated: after any interleaving of concurrent /summarize requests
\* has completed, last_transcription.txt holds the complete transcript of
\* exactly one of those requests and last_summary.txt the complete summary
\* of exactly one of them, never a mixture of two requests' outputs.  (The
\* content left from before the requests, and the empty file a failed
\* request leaves, are let pass here.)
C21_Original ==
  AllAnswered =>
    /\ transcription_file
         \in ProducedTranscripts \cup {PreviousTranscription, <<>>}
    /\ summary_file \in ProducedSummaries \cup {PreviousSummary, <<>>}

\* C21, the failing interleaving: request 1 (two lines) and request 2 (one
\* line) both opened last_transcription.txt before either wrote; request 1
\* wrote first, request 2 last, and the file holds the line of request 2
\* followed by the second line of request 1.
C21_Witness ==
  /\ AllAnswered
  /\ reqs[1].transcription.value = <<"SPEAKER_0", ":", " ", "hi", "\n",
                                     "SPEAKER_1", ":", " ", "there">>
  /\ reqs[2].transcription.value = <<"SPEAKER_1", ":", " ", "hi">>
  /\ transcription_file = <<"SPEAKER_1", ":", " ", "hi", "\n",
                            "SPEAKER_1", ":", " ", "there">>
  /\ transcription_file \notin ProducedTranscripts

\* ---------------------------------------------------------------- C22
\* the diarization pipeline or the speech-recognition model is not loaded
SomeModelNotLoaded == pipeline = None \/ gigaam_model = None

\* the /process_audio request of r reached the diarization service
Posted(r) ==
  /\ mode = "split"
  /\ reqs[r].upload = "ok"
  /\ reqs[r].saved
  /\ reqs[r].delivered
  /\ reqs[r].pc \notin {"idle", "received"}

\* C22: a model that failed to initialize at start-up blocks all processing:
\* while the diarization pipeline or the recognizer is not loaded no request
\* reaches diarization or transcription, every /summarize request of the
\* monolith and every /process_audio request of the diarization service is
\* answered with 503, and neither application stores an upload.
C22_MissingModelBlocks ==
  (reqs # NoRequests /\ SomeModelNotLoaded) =>
    /\ \A r \in DOMAIN reqs :
         /\ ~reqs[r].diarized
         /\ reqs[r].transcription.is_none
         /\ mode = "mono" =>
              /\ reqs[r].pc \in {"idle", "done"}
              /\ reqs[r].pc = "done" => reqs[r].response.status = 503
         /\ mode = "split" =>
              /\ reqs[r].pc # "in_service"
              /\ Posted(r) => reqs[r].service_status = 503
    /\ \A p \in upload_folder :
         p.app \notin {"api", "diarization_service"}

\* the monolith without its diarization pipeline has answered both requests
\* with 503 and stored nothing
C22_Witness ==
  /\ reqs # NoRequests
  /\ mode = "mono"
  /\ pipeline = None
  /\ gigaam_model # None
  /\ \A r \in DOMAIN reqs :
       reqs[r].pc = "done" /\ reqs[r].response.status = 503
  /\ upload_folder = {}

\* the diarization service without models has answered a posted upload
\* with 503, which the UI client reports as a failure
C22_ServiceRefuses ==
  /\ reqs # NoRequests
  /\ SomeModelNotLoaded
  /\ \E r \in DOMAIN reqs :
       /\ Posted(r)
       /\ reqs[r].service_status = 503
       /\ reqs[r].pc = "done"
       /\ reqs[r].response.status = 500

\* ---------------------------------------------------------------- C23
\* diarize_and_transcribe_audio_segments has returned
ServiceReturned ==
  /\ mode = "split"
  /\ pc \in {"service_returned", "service_responded", "client_returned",
             "done"}

\* C23: diarize_and_transcribe_audio_segments returns exactly one of a
\* segment list and an error message: a list (possibly empty) with no
\* message, or no list with a non-empty message; never both, never neither,
\* and never a part of the list with an error: the list it returns has one
\* unit for every segment, the failed ones included.
C23_ListXorError ==
  ServiceReturned =>
    /\ service_result.is_none <=> service_result.error_message # None
    /\ service_result.is_none =>
         /\ service_result.transcribed_segments = <<>>
         /\ service_result.error_message # ""
         /\ transcribed_results = <<>>
    /\ ~service_result.is_none =>
         /\ service_result.transcribed_segments = transcribed_results
         /\ Len(service_result.transcribed_segments) = Len(segments)

\* a transcription failed in the loop and the function still returned the
\* whole list, the ERROR unit in it, with no error message
C23_Witness ==
  /\ ServiceReturned
  /\ ~service_result.is_none
  /\ service_result.error_message = None
  /\ Len(service_result.transcribed_segments) = 2
  /\ service_result.transcribed_segments[1].speaker = ERROR
  /\ service_result.transcribed_segments[2].speaker # ERROR

\* the failure: no list and a message
C23_FailureReturned ==
  /\ ServiceReturned
  /\ service_result.is_none
  /\ service_result.error_message = "Diarization failed"

\* ---------------------------------------------------------------- C24
\* the loop of the pipeline has run over every segment
LoopDone ==
  /\ Segmented
  /\ Len(asr_outcomes) = Len(segments)

\* the string diarize_and_transcribe returns for the diarization and the
\* outcomes of this request
MonoTranscript ==
  FormatTranscription(
    [i \in 1..Len(segments) |->
       MainUnit(diarization.turns, boundaries[i], asr_outcomes[i])])

\* the transcript the UI client renders from the list
\* diarize_and_transcribe_audio_segments returns for them
SplitTranscript ==
  UiFormatTranscription(
    [i \in 1..Len(segments) |->
       ServiceUnit(diarization.turns, boundaries[i], asr_outcomes[i])])

\* C24: for the same diarization result and the same per-segment
\* transcription outcomes, the transcript rendered by the split pipeline
\* (the service's list, then the merge loop of the UI client) is identical
\* to the string the monolithic diarize_and_transcribe returns: what each
\* deployment produced equals what the other one computes from the inputs.
C24_SplitEqualsMono ==
  /\ (LoopDone /\ mode = "mono" /\ pc \in {"returned", "done"}) =>
       transcription.value = SplitTranscript
  /\ (LoopDone /\ mode = "split" /\ pc = "done"
        /\ diarization_response.has_segments) =>
       full_transcription_text = MonoTranscript

\* the split pipeline rendered two segments of one speaker, the second
\* recognized with surrounding blanks, as the monolith does
C24_Witness ==
  /\ LoopDone
  /\ mode = "split"
  /\ pc = "done"
  /\ Len(asr_outcomes) = 2
  /\ asr_outcomes[1].result = <<"hi">>
  /\ asr_outcomes[2].result = <<" ", "there", " ">>
  /\ full_transcription_text =
       <<"SPEAKER_0", ":", " ", "hi", " ", "there">>
  /\ full_transcription_text = MonoTranscript

\* ---------------------------------------------------------------- C25
\* C25: start_docker_services rebuilds the diarization image exactly when
\* the image cannot be inspected or the current hashes of the watched
\* sources differ from the saved build state; the build state is saved only
\* after a build whose image then exists (and becomes the current source
\* state); a start that follows a build whose state was saved, with
\* unchanged sources and the image in place, does not rebuild; a build after
\* which the image is still missing leaves the saved state unchanged and
\* the next start, the image still missing, rebuilds again.
C25_RebuildWhenNeeded ==
  [][/\ (lpc = "check_image" /\ lpc' = "compose_up") =>
          /\ perform_build' <=>
               (inspected' # "found" \/ sources # build_state)
          /\ (last_build = "saved" /\ built_sources = sources
                /\ inspected' = "found") => ~perform_build'
          /\ (last_build = "image_missing" /\ ~image) => perform_build'
     /\ build_state' # build_state =>
          /\ lpc = "save_state"
          /\ perform_build
          /\ image
          /\ build_state' = sources
     /\ (lpc = "save_state" /\ perform_build /\ ~image) =>
          build_state' = build_state
    ]_vars

\* the second start found the image of the build the first start saved the
\* state of, the sources unchanged, and decided not to rebuild
C25_Witness ==
  /\ starts = 2
  /\ lpc = "compose_up"
  /\ last_build = "saved"
  /\ built_sources = sources
  /\ build_state = sources
  /\ inspected = "found"
  /\ ~perform_build

\* the second start rebuilds after a build that left no image
C25_RebuildsAgain ==
  /\ starts = 2
  /\ lpc = "compose_up"
  /\ last_build = "image_missing"
  /\ build_state = sources
  /\ perform_build

\* ---------------------------------------------------------------- C26
\* handle_exit is past its first part, the stop of the UI client
UiPartDone == lpc \in {"stop_docker", "sys_exit"}

\* handle_exit has finished
HandlerFinished == lpc = "exited" /\ exit_via = "handle_exit"

\* C26: shutdown on a termination signal is ordered and complete:
\* handle_exit first stops the UI client (terminated, or killed when it did
\* not exit within the wait), only then stops the Docker Compose services,
\* and only if the Docker client was initialised, and then exits; when the
\* handler has finished the UI client is no longer running.
C26_OrderedShutdown ==
  /\ UiPartDone => ui_process # "running"
  /\ docker_stopped =>
       /\ docker # None
       /\ ui_process # "running"
       /\ lpc \in {"handle_exit", "stop_docker", "sys_exit", "exited"}
  /\ lpc = "sys_exit" => (docker # None <=> docker_stopped)
  /\ HandlerFinished =>
       /\ ui_process # "running"
       /\ docker # None <=> docker_stopped
  /\ ui_stop # "none" => ui_process = "exited"

\* a signal arrived while the services were up; the UI client did not exit
\* within the wait and was killed, then the services were brought down and
\* the launcher exited
C26_Witness ==
  /\ HandlerFinished
  /\ ui_stop = "killed"
  /\ ui_process = "exited"
  /\ docker_stopped
  /\ compose = "down"

\* ---------------------------------------------------------------- C27
\* C27 as stated: a /summarize request that fails during diarization or
\* transcription leaves last_transcription.txt and last_summary.txt exactly
\* as they were before the request.
C27_Original ==
  (entry = "http" /\ pc = "done" /\ TranscriptionFailed) =>
    /\ transcription_file = PreviousTranscription
    /\ summary_file = PreviousSummary

\* C27, the failing request: the monolith's pipeline returned None, the
\* handler opened last_transcription.txt for writing, which emptied it, and
\* the write of None raised; the request was answered with 500 and the
\* transcript of the previous request is lost.
C27_Witness ==
  /\ entry = "http"
  /\ mode = "mono"
  /\ pc = "done"
  /\ transcription.is_none
  /\ response.status = 500
  /\ transcription_file = <<>>
  /\ summary_file = PreviousSummary

\* ---------------------------------------------------------------- C28
\* the request produced a transcript and stored it in last_transcription.txt
TranscriptStored ==
  /\ entry = "http"
  /\ pc = "done"
  /\ ~TranscriptionFailed
  /\ transcription_file = IF mode = "mono" THEN transcription.value
                          ELSE full_transcription_text

\* C28 as stated: after a completed /summarize request, requests being
\* processed one at a time, last_summary.txt is the summary produced for
\* the transcript now in last_transcription.txt, never the one an earlier
\* request left, also when the new transcript is empty or the summarization
\* failed; a summary returned to the caller is the one stored.
C28_Original ==
  TranscriptStored =>
    /\ summary_file # PreviousSummary
    /\ response.status = 200 => summary_file = response.summary

\* C28, the failing request: the transcript of the request is stored, the
\* summarizer failed, the request was answered with 500 and last_summary.txt
\* still holds the summary of the previous request.
C28_Witness ==
  /\ TranscriptStored
  /\ transcription_file # <<>>
  /\ llm_calls = <<transcription_file>>
  /\ response.status = 500
  /\ summary_file = PreviousSummary

\* the monolith stored an empty transcript, answered 200 with an empty
\* summary and left the summary of the previous request in place
C28_EmptyTranscript ==
  /\ TranscriptStored
  /\ mode = "mono"
  /\ transcription_file = <<>>
  /\ response.status = 200
  /\ response.summary = <<>>
  /\ summary_file = PreviousSummary

\* ---------------------------------------------------------------- C29
\* what is left under the upload folders for request r
LeftBy(r) == {p \in upload_folder : p.dir = r}

\* C29: every /summarize and /process_audio request that made a temporary
\* upload directory has removed its temporary audio file and the directory
\* when it returns, whatever the outcome; after the requests have completed
\* no temporary file or directory remains.
C29_UploadsRemoved ==
  reqs # NoRequests =>
    /\ \A r \in DOMAIN reqs :
         /\ reqs[r].pc \in {"idle", "done"} => LeftBy(r) = {}
         /\ reqs[r].pc # "in_service" =>
              \A p \in LeftBy(r) : p.app # "diarization_service"
         /\ reqs[r].pc \notin {"idle", "done"} =>
              {TempDir(Host, r), TempAudio(Host, r)} \subseteq upload_folder
         /\ reqs[r].pc = "in_service" =>
              {TempDir("diarization_service", r),
               TempAudio("diarization_service", r)} \subseteq upload_folder
    /\ AllAnswered => upload_folder = {}

\* two requests that stored their uploads have returned, one with its
\* summary and one with a failed summarization, and nothing is left
C29_Witness ==
  /\ AllAnswered
  /\ reqs[1].response.status = 200
  /\ reqs[1].response.summary # <<>>
  /\ reqs[2].response.status = 500
  /\ reqs[2].response.error \in {"Failed during summarization",
                                 "Failed during summarization by LLM"}
  /\ upload_folder = {}

\* a request whose pipeline failed has returned and nothing is left
C29_AfterPipelineError ==
  /\ AllAnswered
  /\ \E r \in DOMAIN reqs :
       /\ reqs[r].response.status = 500
       /\ reqs[r].response.error \in
            {"An internal server error occurred",
             "Failed during transcription/diarization"}
       /\ reqs[r].saved
  /\ upload_folder = {}

\* ---------------------------------------------------------------- C30
\* this start is past the wait-for-healthy loop
LoopLeft == lpc \in {"waited", "wait_ui"}

\* C30: the wait-for-healthy loop of start_docker_services always
\* terminates: it makes at most 12 health inspections, each either the
\* healthy one, which stops the loop, or an unsuccessful attempt that is
\* counted (a not-running container and an inspection error too); after the
\* 12th unsuccessful attempt it gives up with a warning and start-up goes
\* on; the warning is issued only if no inspection reported healthy.
C30_HealthLoopBounded ==
  /\ inspections <= max_retries
  /\ retries <= max_retries
  /\ lpc = "wait_healthy" => (~healthy /\ inspections = retries)
  /\ healthy => inspections = retries + 1
  /\ LoopLeft => (healthy \/ retries = max_retries)
  /\ (LoopLeft /\ ~healthy) => inspections = max_retries
  /\ warned => (~healthy /\ inspections = max_retries)
  /\ lpc = "wait_ui" => (warned <=> ~healthy)

\* twelve inspections, errors and not-running containers among them, none
\* healthy: the launcher gave up with the warning and waits for the UI
\* client
C30_Witness ==
  /\ lpc = "wait_ui"
  /\ inspections = max_retries
  /\ ~healthy
  /\ warned
  /\ exit_via = "none"

\* the 12th inspection reported healthy: no warning
C30_HealthyAtLast ==
  /\ lpc = "wait_ui"
  /\ inspections = max_retries
  /\ healthy
  /\ ~warned

====
